---- MODULE Spec2Model ----
(***************************************************************************)
(* Price Floors module (modules/priceFloors.js) of Prebid.js: the rule     *)
(* catalog validator, the per-auction floor resolver and the fetch & delay *)
(* coordinator, as a state machine over the module-level variables         *)
(* fetching, _floorsConfig, _delayedAuctions, _floorDataForAuction,        *)
(* addedFloorsHook and allowedFields.                                      *)
(*                                                                         *)
(* JavaScript values are modelled with a type tag in first position, so    *)
(* that `undefined`, numbers, strings, booleans and objects can live in    *)
(* the same property: <<"undefined">>, <<"number", n>>, <<"string", s>>,   *)
(* <<"boolean", b>>, <<"object", r>>.                                      *)
(*                                                                         *)
(* A rule key is modelled as the sequence of its segments, i.e. the result *)
(* of key.split(delimiter) for the catalog's own delimiter; the segments   *)
(* of the model's inputs never contain the delimiter.                      *)
(***************************************************************************)
EXTENDS Integers, Sequences, FiniteSets, TLC

\* ------------------------------------------------------------------------
\* JavaScript values
\* ------------------------------------------------------------------------
Undef == <<"undefined">>

Num(n) == <<"number", n>>

Str(s) == <<"string", s>>

Bool(b) == <<"boolean", b>>

Obj(r) == <<"object", r>>

TypeOf(v) == v[1]

Val(v) == v[2]

IsNumber(v) == TypeOf(v) = "number"

IsObject(v) == TypeOf(v) = "object"

\* JS truthiness (ToBoolean)
Truthy(v) ==
    CASE TypeOf(v) = "undefined" -> FALSE
      [] TypeOf(v) = "number"    -> Val(v) # 0
      [] TypeOf(v) = "string"    -> Val(v) # ""
      [] TypeOf(v) = "boolean"   -> Val(v)
      [] TypeOf(v) = "NaN"       -> FALSE
      [] OTHER                   -> TRUE

\* a || b
OrElse(a, b) == IF Truthy(a) THEN a ELSE b

\* a ?? b
Coalesce(a, b) == IF a = Undef THEN b ELSE a

\* String.prototype.toLowerCase over the strings of the model
ToLowerCase(s) ==
    CASE s = "Banner" -> "banner"
      [] s = "Video"  -> "video"
      [] s = "AU1"    -> "au1"
      [] s = "AU2"    -> "au2"
      [] s = "Slot"   -> "slot"
      [] s = "Slot.Top" -> "slot.top"
      [] s = "Other"  -> "other"
      [] OTHER        -> s

LowerKey(key) == [i \in 1..Len(key) |-> ToLowerCase(key[i])]

\* ------------------------------------------------------------------------
\* Module constants and floors data objects
\* ------------------------------------------------------------------------
SYN_FIELD == "Symbol()"

BuiltinFields == <<SYN_FIELD, "gptSlot", "adUnitCode", "size", "domain", "mediaType">>

SeqToSet(s) == {s[i] : i \in 1..Len(s)}

\* A floors data object ("rule catalog") with every property absent
EmptyData ==
    [ floorsSchemaVersion |-> Undef,
      schema              |-> Undef,   \* Obj([fields |-> .., delimiter |-> ..])
      values              |-> Undef,   \* Obj(function from rule key to value)
      default             |-> Undef,
      currency            |-> Undef,
      skipRate            |-> Undef,
      floorProvider       |-> Undef,
      modelVersion        |-> Undef,
      modelWeight         |-> Undef,
      modelGroups         |-> Undef,   \* Obj(sequence of floors data objects)
      modelWeightSum      |-> Undef,
      meta                |-> Undef,   \* Obj([defaultRule |-> key])
      location            |-> Undef,
      floorMin            |-> Undef,
      noFloorSignalBidders |-> Undef,  \* Obj(sequence of bidder names)
      matchingInputs      |-> Undef,   \* Obj(function from memo path to match)
      ref                 |-> Undef ]  \* which object it is: see DeepClone

Schema(fields, delimiter) == Obj([fields |-> fields, delimiter |-> delimiter])

\* deepAccess(model, 'schema.fields')
SchemaFields(model) ==
    IF IsObject(model.schema) THEN Val(model.schema).fields ELSE Undef

\* model.schema?.delimiter
SchemaDelimiter(model) ==
    IF IsObject(model.schema) THEN Val(model.schema).delimiter ELSE Undef

\* Object.keys(deepAccess(x, 'values') || {})
RuleKeys(model) ==
    IF IsObject(model.values) THEN DOMAIN Val(model.values) ELSE {}

\* restriction of a function to a subset of its domain
Restrict(f, S) == [k \in S |-> f[k]]

EmptyObject == [k \in {} |-> Undef]

\* ------------------------------------------------------------------------
\* Rule Catalog Validator
\* ------------------------------------------------------------------------

\* validateSchemaFields: a non-empty array of allowed fields
ValidateSchemaFields(fields, allowed) ==
    /\ IsObject(fields)
    /\ Len(Val(fields)) > 0
    /\ \A i \in 1..Len(Val(fields)) : Val(fields)[i] \in allowed

\* isValidRule without the test of the floor's type
IsValidRuleAnyFloor(key, floor, numFields) ==
    Len(key) = numFields

\* isValidRule: the key splits into numFields segments and the floor is a number
IsValidRule(key, floor, numFields) ==
    /\ Len(key) = numFields
    /\ TypeOf(floor) = "number"

\* validateRules: drops the invalid rules; valid iff a rule remains
ValidateRules(floorsData, numFields) ==
    LET Filtered(vals, kept) ==
            [ok    |-> kept # {},
             model |-> [floorsData EXCEPT !.values = Obj(Restrict(vals, kept))]]
    IN  IF ~IsObject(floorsData.values)
        THEN [ok |-> FALSE, model |-> floorsData]
        ELSE Filtered(Val(floorsData.values),
                      {k \in DOMAIN Val(floorsData.values) :
                          IsValidRule(k, Val(floorsData.values)[k], numFields)})

\* normalizeDefault: a scalar default becomes the all-wildcard rule
NormalizeDefault(model) ==
    LET WithRule(numFields, defaultRule, vals) ==
            LET m1 == IF numFields = 0
                      THEN [model EXCEPT
                              !.schema = Schema(Obj(<<SYN_FIELD>>), SchemaDelimiter(model))]
                      ELSE model
            IN  IF defaultRule \notin DOMAIN vals \/ vals[defaultRule] = Undef
                THEN [m1 EXCEPT
                        !.values = Obj((defaultRule :> model.default) @@ vals),
                        !.meta   = Obj([defaultRule |-> defaultRule])]
                ELSE [m1 EXCEPT !.values = Obj(vals)]
        WithFields(numFields) ==
            WithRule(numFields,
                     IF numFields = 0 THEN <<"*">> ELSE [i \in 1..numFields |-> "*"],
                     IF Truthy(model.values) THEN Val(model.values) ELSE EmptyObject)
    IN  IF ~IsNumber(model.default)
        THEN model
        ELSE WithFields(IF Truthy(SchemaFields(model))
                        THEN Len(Val(SchemaFields(model))) ELSE 0)

\* modelIsValid
ModelIsValid(model, allowed) ==
    LET Check(m) ==
            IF ~ValidateSchemaFields(SchemaFields(m), allowed)
            THEN [ok |-> FALSE, model |-> m]
            ELSE ValidateRules(m, Len(Val(SchemaFields(m))))
    IN  Check(NormalizeDefault(model))

\* floorsSchemaValidation[2]: modelGroups.every(...) accumulating modelWeightSum
RECURSIVE ValidateModelGroups(_, _, _, _)
ValidateModelGroups(groups, i, sum, allowed) ==
    LET Checked(r) ==
            IF r.ok
            THEN ValidateModelGroups([groups EXCEPT ![i] = r.model], i + 1,
                                     sum + Val(groups[i].modelWeight), allowed)
            ELSE [ok |-> FALSE, groups |-> [groups EXCEPT ![i] = r.model], sum |-> sum]
    IN  IF i > Len(groups)
        THEN [ok |-> TRUE, groups |-> groups, sum |-> sum]
        ELSE IF TypeOf(groups[i].modelWeight) # "number"
             THEN [ok |-> FALSE, groups |-> groups, sum |-> sum]
             ELSE Checked(ModelIsValid(groups[i], allowed))

\* floorsSchemaValidation[2] without `data.modelWeightSum = 0`: the weights are
\* added to the sum the data came with
FloorsSchemaValidation2Accumulating(data, allowed) ==
    LET Result(r) ==
            [ok    |-> r.ok,
             model |-> [data EXCEPT !.modelWeightSum = Num(r.sum),
                                    !.modelGroups    = Obj(r.groups)]]
    IN  IF ~IsObject(data.modelGroups) \/ Len(Val(data.modelGroups)) = 0
        THEN [ok |-> FALSE, model |-> data]
        ELSE Result(ValidateModelGroups(Val(data.modelGroups), 1,
                                        IF IsNumber(data.modelWeightSum)
                                        THEN Val(data.modelWeightSum) ELSE 0,
                                        allowed))

FloorsSchemaValidation2(data, allowed) ==
    LET Result(r) ==
            [ok    |-> r.ok,
             model |-> [data EXCEPT !.modelWeightSum = Num(r.sum),
                                    !.modelGroups    = Obj(r.groups)]]
    IN  IF ~IsObject(data.modelGroups) \/ Len(Val(data.modelGroups)) = 0
        THEN [ok |-> FALSE, model |-> data]
        ELSE Result(ValidateModelGroups(Val(data.modelGroups), 1, 0, allowed))

\* isFloorsDataValid; `model` is the argument as the validation leaves it
IsFloorsDataValid(floorsData, allowed) ==
    LET Result(r) == [ok |-> r.ok, model |-> Obj(r.model)]
        Dispatch(d) ==
            CASE d.floorsSchemaVersion = Num(1) -> ModelIsValid(d, allowed)
              [] d.floorsSchemaVersion = Num(2) -> FloorsSchemaValidation2(d, allowed)
              [] OTHER -> [ok |-> FALSE, model |-> d]
    IN  IF ~IsObject(floorsData)
        THEN [ok |-> FALSE, model |-> floorsData]
        ELSE Result(Dispatch([Val(floorsData) EXCEPT
                                 !.floorsSchemaVersion = OrElse(@, Num(1))]))

\* parseFloorData without the call of isFloorsDataValid
ParseFloorDataUnvalidated(floorsData, location, allowed) ==
    IF Truthy(floorsData) /\ IsObject(floorsData)
    THEN Obj([Val(floorsData) EXCEPT !.location = Str(location)])
    ELSE Undef

\* parseFloorData: the validated data with its location, or undefined
ParseFloorData(floorsData, location, allowed) ==
    LET Result(r) ==
            IF r.ok THEN Obj([Val(r.model) EXCEPT !.location = Str(location)])
                    ELSE Undef
    IN  IF Truthy(floorsData) /\ IsObject(floorsData)
        THEN Result(IsFloorsDataValid(floorsData, allowed))
        ELSE Undef


\* ------------------------------------------------------------------------
\* Auction Floor Resolver
\* ------------------------------------------------------------------------

\* The floors configuration object with every property absent: `{}`
EmptyConfig ==
    [ floorMin      |-> Undef,
      enabled       |-> Undef,
      auctionDelay  |-> Undef,
      floorProvider |-> Undef,
      endpoint      |-> Undef,   \* Obj([url |-> .., method |-> ..])
      skipRate      |-> Undef,
      enforcement   |-> Undef,   \* Obj([enforceJS |-> .., ...])
      data          |-> Undef,   \* Obj(floors data object)
      fetchStatus   |-> Undef,
      skipped       |-> Undef ]

\* Object.assign(target, source) on floors data objects: the properties the
\* source has replace the target's
Assign(target, source) ==
    [p \in DOMAIN target |-> IF source[p] # Undef THEN source[p] ELSE target[p]]

\* normalizeRulesForAuction without the line item's code: the keys are only
\* put in lower case
NormalizeRulesUnprefixed(floorData, adUnitCode) ==
    [fields |-> Val(SchemaFields(floorData)),
     values |-> [nk \in {LowerKey(k) : k \in DOMAIN Val(floorData.values)} |->
                    Val(floorData.values)[CHOOSE k \in DOMAIN Val(floorData.values) :
                                             LowerKey(k) = nk]]]

\* normalizeRulesForAuction: the line item's code is prepended to the keys unless
\* the schema has the adUnitCode field, and the keys are stored in lower case
NormalizeRulesForAuction(floorData, adUnitCode) ==
    LET NewKey(oldKey, prepend) ==
            LowerKey(IF prepend THEN <<Val(adUnitCode)>> \o oldKey ELSE oldKey)
        Rules(fields, vals, prepend) ==
            [fields |-> IF prepend THEN <<"adUnitCode">> \o fields ELSE fields,
             values |-> [nk \in {NewKey(k, prepend) : k \in DOMAIN vals} |->
                            vals[CHOOSE k \in DOMAIN vals : NewKey(k, prepend) = nk]]]
    IN  Rules(Val(SchemaFields(floorData)), Val(floorData.values),
              Truthy(adUnitCode)
                 /\ "adUnitCode" \notin SeqToSet(Val(SchemaFields(floorData))))

\* getFloorsDataForAuction
GetFloorsDataForAuction(floorData, adUnitCode) ==
    LET Result(n) ==
            [floorData EXCEPT
                !.schema   = Schema(Obj(n.fields),
                                    OrElse(SchemaDelimiter(floorData), Str("|"))),
                !.values   = Obj(n.values),
                !.currency = OrElse(@, Str("USD"))]
    IN  Result(NormalizeRulesForAuction(floorData, adUnitCode))

\* adUnits.find(au => au.floors?.schema != null): its index, 0 when there is none
SchemaAu(adUnits) ==
    LET has == {i \in 1..Len(adUnits) :
                   IsObject(adUnits[i].floors) /\ Val(adUnits[i].floors).schema # Undef}
    IN  IF has = {} THEN 0 ELSE CHOOSE i \in has : \A j \in has : i <= j

\* getFloorDataFromAdUnits, one step of the reduce; accum is {} (EmptyData) or
\* the data built so far
FloorDataFromAdUnit(accum, adUnits, i, allowed) ==
    LET Add(built) ==
            IF ~Truthy(accum.values)
            THEN [built EXCEPT !.location = Str("adUnit")]
            ELSE [accum EXCEPT !.values = Obj(Val(built.values) @@ Val(accum.values))]
        Validated(r) ==
            IF r.ok
            THEN Add(GetFloorsDataForAuction(Val(r.model), Str(adUnits[i].code)))
            ELSE accum
        Step(auFloors, base) ==
            IF auFloors.schema # Undef /\ auFloors.schema # base.schema
            THEN accum
            ELSE Validated(IsFloorsDataValid(
                     Obj(Assign([base EXCEPT !.values = Undef], auFloors)), allowed))
    IN  Step(IF IsObject(adUnits[i].floors) THEN Val(adUnits[i].floors) ELSE EmptyData,
             IF SchemaAu(adUnits) # 0 THEN Val(adUnits[SchemaAu(adUnits)].floors)
                                      ELSE EmptyData)

RECURSIVE FloorDataFromAdUnits(_, _, _, _)
FloorDataFromAdUnits(accum, adUnits, i, allowed) ==
    IF i > Len(adUnits)
    THEN accum
    ELSE FloorDataFromAdUnits(FloorDataFromAdUnit(accum, adUnits, i, allowed),
                              adUnits, i + 1, allowed)

GetFloorDataFromAdUnits(adUnits, allowed) ==
    FloorDataFromAdUnits(EmptyData, adUnits, 1, allowed)

\* pickRandomModel; random01 is Math.random() in hundredths. The index of the
\* selected group, 0 when the loop ends without selecting one
RECURSIVE PickFrom(_, _, _)
PickFrom(modelGroups, i, random) ==
    IF i > Len(modelGroups) THEN 0
    ELSE LET rest == random - Val(modelGroups[i].modelWeight)
         IN  IF rest <= 0 THEN i ELSE PickFrom(modelGroups, i + 1, rest)

\* pickRandomModel with Math.floor(Math.random() * weightSum), the `+ 1` left out
PickRandomModelFromZero(modelGroups, weightSum, random01) ==
    PickFrom(modelGroups, 1, (random01 * weightSum) \div 100)

PickRandomModel(modelGroups, weightSum, random01) ==
    PickFrom(modelGroups, 1, ((random01 * weightSum) \div 100) + 1)


\* no copy: the very object
SameObject(obj, id) == obj

\* deepClone(obj) on behalf of auction id: a copy is a new object, one that
\* nothing else refers to. `ref` tells the objects apart: writes to an object
\* are seen through every reference to the same `ref`
DeepClone(obj, id) == [obj EXCEPT !.ref = id]

\* deepAccess(floorData, 'data') as a floors data object ({} when absent)
DataOf(floorData) ==
    IF IsObject(floorData.data) THEN Val(floorData.data) ELSE EmptyData

\* parseFloat of a number or of a query-string value; NaN is Undef
ParseFloat(v) ==
    CASE IsNumber(v)    -> v
      [] v = Str("0")   -> Num(0)
      [] v = Str("50")  -> Num(50)
      [] v = Str("100") -> Num(100)
      [] OTHER          -> Undef

\* getNoFloorSignalBidersArray finding no bidder on any list
NoFloorSignalBiddersNone(floorData) == << >>

\* getNoFloorSignalBidersArray
GetNoFloorSignalBidersArray(floorData) ==
    LET data == DataOf(floorData)
    IN  IF IsObject(data.noFloorSignalBidders) /\ Len(Val(data.noFloorSignalBidders)) > 0
        THEN Val(data.noFloorSignalBidders)
        ELSE IF /\ IsObject(floorData.enforcement)
                /\ Len(Val(floorData.enforcement).noFloorSignalBidders) > 0
             THEN Val(floorData.enforcement).noFloorSignalBidders
             ELSE << >>

\* updateAdUnitsForAuction with `bid.getFloor = getFloor` for a skipped auction
\* too
UpdateAdUnitsIgnoringSkip(adUnits, floorData, auctionId, fetchStatus) ==
    LET Stamp(bid, isNoFloorSignaled, data) ==
            [bid EXCEPT
                !.getFloor  = ~isNoFloorSignaled,
                !.auctionId = auctionId,
                !.floorData = Obj(
                    [ noFloorSignaled |-> isNoFloorSignaled,
                      skipped         |-> floorData.skipped,
                      skipRate        |-> Coalesce(data.skipRate, floorData.skipRate),
                      floorMin        |-> floorData.floorMin,
                      modelVersion    |-> data.modelVersion,
                      modelWeight     |-> data.modelWeight,
                      location        |-> Coalesce(data.location, Str("noData")),
                      floorProvider   |-> floorData.floorProvider,
                      fetchStatus     |-> fetchStatus ])]
        Update(noSignal, data) ==
            [i \in 1..Len(adUnits) |->
                [adUnits[i] EXCEPT
                    !.bids = [j \in 1..Len(adUnits[i].bids) |->
                                 Stamp(adUnits[i].bids[j],
                                       adUnits[i].bids[j].bidder \in noSignal, data)]]]
    IN  Update(SeqToSet(GetNoFloorSignalBidersArray(floorData)), DataOf(floorData))

\* updateAdUnitsForAuction: every bid of every ad unit gets the floor metadata,
\* and getFloor unless the auction is skipped or the bidder gets no signal
UpdateAdUnitsForAuction(adUnits, floorData, auctionId, fetchStatus) ==
    LET Stamp(bid, isNoFloorSignaled, data) ==
            [bid EXCEPT
                !.getFloor  = ~(Truthy(floorData.skipped) \/ isNoFloorSignaled),
                !.auctionId = auctionId,
                !.floorData = Obj(
                    [ noFloorSignaled |-> isNoFloorSignaled,
                      skipped         |-> floorData.skipped,
                      skipRate        |-> Coalesce(data.skipRate, floorData.skipRate),
                      floorMin        |-> floorData.floorMin,
                      modelVersion    |-> data.modelVersion,
                      modelWeight     |-> data.modelWeight,
                      location        |-> Coalesce(data.location, Str("noData")),
                      floorProvider   |-> floorData.floorProvider,
                      fetchStatus     |-> fetchStatus ])]
        Update(noSignal, data) ==
            [i \in 1..Len(adUnits) |->
                [adUnits[i] EXCEPT
                    !.bids = [j \in 1..Len(adUnits[i].bids) |->
                                 Stamp(adUnits[i].bids[j],
                                       adUnits[i].bids[j].bidder \in noSignal, data)]]]
    IN  Update(SeqToSet(GetNoFloorSignalBidersArray(floorData)), DataOf(floorData))

\* the skip rate with the catalog's and the configured rate ahead of the page's
\* pbjs_skipRate
AuctionSkipRateParamLast(resolvedFloorsData, pbjsSkipRateParam) ==
    OrElse(Coalesce(DataOf(resolvedFloorsData).skipRate, resolvedFloorsData.skipRate),
           pbjsSkipRateParam)

\* auctionSkipRate of createFloorsDataForAuction:
\* getParameterByName('pbjs_skipRate') || (data.skipRate ?? skipRate)
AuctionSkipRate(resolvedFloorsData, pbjsSkipRateParam) ==
    OrElse(pbjsSkipRateParam,
           Coalesce(DataOf(resolvedFloorsData).skipRate, resolvedFloorsData.skipRate))

\* a skip test that skips at the skip rate too
IsSkippedAtOrBelow(random100, auctionSkipRate) ==
    IsNumber(ParseFloat(auctionSkipRate)) /\ random100 <= Val(ParseFloat(auctionSkipRate))

\* isSkipped: Math.random() * 100 < parseFloat(auctionSkipRate), which is false
\* when parseFloat gives NaN
IsSkipped(random100, auctionSkipRate) ==
    IsNumber(ParseFloat(auctionSkipRate)) /\ random100 < Val(ParseFloat(auctionSkipRate))

\* createFloorsDataForAuction; rnd holds the two Math.random() draws (in
\* hundredths), pbjsSkipRateParam is getParameterByName('pbjs_skipRate')
CreateFloorsDataForAuction(floorsCfg, adUnits, auctionId, rnd, allowed, pbjsSkipRateParam) ==
    LET \* add floorData to bids
        Stamped(r4) ==
            [ floorData |-> r4,
              adUnits   |-> UpdateAdUnitsForAuction(adUnits, r4, auctionId,
                                                    floorsCfg.fetchStatus) ]
        \* copy floorMin to floorData.data
        WithFloorMin(r3) ==
            Stamped(IF r3.floorMin # Undef
                    THEN [r3 EXCEPT !.data = Obj([Val(@) EXCEPT !.floorMin = r3.floorMin])]
                    ELSE r3)
        \* no rule: skipped; otherwise the skip rate decides
        WithSkip(r2) ==
            WithFloorMin(
                [r2 EXCEPT
                   !.skipped =
                      Bool(IF RuleKeys(DataOf(r2)) = {} THEN TRUE
                           ELSE IsSkipped(rnd.skip,
                                          AuctionSkipRate(r2, pbjsSkipRateParam)))])
        \* the configured data, or else the data of the ad units: either way the
        \* deep copy that getFloorsDataForAuction made for this auction
        WithData(r1) ==
            WithSkip(
                [r1 EXCEPT
                   !.data = Obj(DeepClone(
                                IF RuleKeys(DataOf(r1)) = {}
                                THEN GetFloorDataFromAdUnits(adUnits, allowed)
                                ELSE GetFloorsDataForAuction(Val(r1.data), Undef),
                                auctionId))])
        \* schema 2: one model group is merged into the top level data
        Picked(rest, groups, i) ==
            [floorsCfg EXCEPT !.data = Obj(IF i = 0 THEN rest ELSE Assign(rest, groups[i]))]
        WithModel(data) ==
            Picked([data EXCEPT !.modelGroups = Undef], Val(data.modelGroups),
                   PickRandomModel(Val(data.modelGroups), Val(data.modelWeightSum),
                                   rnd.model))
    IN  WithData(IF DataOf(floorsCfg).floorsSchemaVersion = Num(2)
                 THEN WithModel(Val(floorsCfg.data))
                 ELSE floorsCfg)


\* ------------------------------------------------------------------------
\* Rule Matching Engine
\* ------------------------------------------------------------------------

\* the number NaN, which is falsy
NaN == <<"NaN">>

\* Math.max of two values: NaN unless both are numbers
MathMax(a, b) ==
    IF IsNumber(a) /\ IsNumber(b)
    THEN (IF Val(a) >= Val(b) THEN a ELSE b)
    ELSE NaN

\* parseGPTSingleSizeArray: 'WxH' of an array of two numbers, or undefined
ParseGPTSingleSizeArray(size) ==
    IF IsObject(size) /\ Len(Val(size)) = 2
    THEN CASE Val(size) = <<300, 250>> -> Str("300x250")
           [] Val(size) = <<640, 480>> -> Str("640x480")
           [] OTHER                    -> Undef
    ELSE Undef

\* the hostname getHostname() reads from the referer
PageDomain == "www.example.com"

\* fieldMatchingFunctions[field](bidRequest, bidResponse)
FieldMatchingFunctions(field, bidObject, responseObject) ==
    CASE field = SYN_FIELD    -> Str("*")
      [] field = "size"       -> OrElse(ParseGPTSingleSizeArray(responseObject.size), Str("*"))
      [] field = "mediaType"  -> OrElse(responseObject.mediaType, Str("banner"))
      [] field = "adUnitCode" -> OrElse(bidObject.adUnitCode, responseObject.adUnitCode)
      [] field = "domain"     -> Str(PageDomain)
      [] OTHER                -> Undef

\* enumeratePossibleFieldValues: per field, [exact match in lower case, '*'],
\* or ['*'] alone when the exact match is '*'
EnumeratePossibleFieldValues(floorFields, bidObject, responseObject) ==
    LET Tuple(exactMatch) ==
            IF exactMatch = Str("*") THEN <<"*">>
            ELSE <<ToLowerCase(Val(exactMatch)), "*">>
    IN  [i \in 1..Len(floorFields) |->
            Tuple(OrElse(FieldMatchingFunctions(floorFields[i], bidObject, responseObject),
                         Str("*")))]

\* left.split('*').length - 1 for a key whose segments hold no '*' of their own
StarCount(key) == Cardinality({i \in 1..Len(key) : key[i] = "*"})

\* the same with the fields on the right varying slowest
CrossKeysRightSlowest(accum, currentVal) ==
    [k \in 1..(Len(accum) * Len(currentVal)) |->
        Append(accum[((k - 1) % Len(accum)) + 1],
               currentVal[((k - 1) \div Len(accum)) + 1])]

\* one step of the reduce of generatePossibleEnumerations: every key so far
\* extended by every value of the next field, in that order
CrossKeys(accum, currentVal) ==
    [k \in 1..(Len(accum) * Len(currentVal)) |->
        Append(accum[((k - 1) \div Len(currentVal)) + 1],
               currentVal[((k - 1) % Len(currentVal)) + 1])]

RECURSIVE EnumerateKeys(_, _, _)
EnumerateKeys(arrayOfFields, i, accum) ==
    IF i > Len(arrayOfFields)
    THEN accum
    ELSE EnumerateKeys(arrayOfFields, i + 1, CrossKeys(accum, arrayOfFields[i]))

\* the sort turned around: most '*' first
RECURSIVE SortMostStarsFirst(_, _, _)
SortMostStarsFirst(keys, n, maxStars) ==
    IF n > maxStars
    THEN << >>
    ELSE SortMostStarsFirst(keys, n + 1, maxStars) \o SelectSeq(keys, LAMBDA k : StarCount(k) = n)

\* Array.prototype.sort by the number of '*', which is stable
RECURSIVE SortByStars(_, _, _)
SortByStars(keys, n, maxStars) ==
    IF n > maxStars
    THEN << >>
    ELSE SelectSeq(keys, LAMBDA k : StarCount(k) = n) \o SortByStars(keys, n + 1, maxStars)

\* generatePossibleEnumerations: the candidate keys, least '*' first
GeneratePossibleEnumerations(arrayOfFields) ==
    SortByStars(EnumerateKeys(arrayOfFields, 2,
                              [k \in 1..Len(arrayOfFields[1]) |-> <<arrayOfFields[1][k]>>]),
                0, Len(arrayOfFields))

\* the parts of a field value between its '.' characters
DotParts(s) ==
    CASE s = "www.example.com" -> <<"www", "example", "com">>
      [] s = "slot.top"        -> <<"slot", "top">>
      [] OTHER                 -> <<s>>

\* the path `matchingInputs.${matchingInput}` as deepAccess and deepSetValue
\* read it: the exact values joined with '-', then split at every '.'
RECURSIVE MatchingInputPath(_, _, _)
MatchingInputPath(exacts, i, parts) ==
    IF i > Len(exacts)
    THEN parts
    ELSE MatchingInputPath(exacts, i + 1,
            IF parts = << >>
            THEN DotParts(exacts[i])
            ELSE SubSeq(parts, 1, Len(parts) - 1)
                    \o <<parts[Len(parts)] \o "-" \o DotParts(exacts[i])[1]>>
                    \o Tail(DotParts(exacts[i])))

\* a match result without any property
NoMatchInfo ==
    [ floorMin |-> Undef, floorRuleValue |-> Undef, matchingData |-> Undef,
      matchingRule |-> Undef, matchingFloor |-> Undef ]

IsStrictPrefix(p, q) == Len(p) < Len(q) /\ SubSeq(q, 1, Len(p)) = p

\* a lookup that never finds a saved match
PreviousMatchNone(floorData, path) == Undef

\* deepAccess(floorData, `matchingInputs.${matchingInput}`): the saved match, an
\* object on the way to a saved match, or undefined
PreviousMatch(floorData, path) ==
    LET Look(memo) ==
            IF path \in DOMAIN memo THEN Obj(memo[path])
            ELSE IF \E q \in DOMAIN memo : IsStrictPrefix(path, q)
                 THEN Obj(NoMatchInfo)
                 ELSE Undef
    IN  IF IsObject(floorData.matchingInputs) THEN Look(Val(floorData.matchingInputs))
        ELSE Undef

\* deepSetValue(floorData, `matchingInputs.${matchingInput}`, {...matchingData})
SaveMatch(floorData, path, matchingData) ==
    [floorData EXCEPT
        !.matchingInputs =
            Obj((path :> matchingData) @@
                (IF IsObject(@) THEN Val(@) ELSE EmptyObject))]

\* find(allPossibleMatches, hashValue => floorData.values.hasOwnProperty(hashValue))
RECURSIVE FindRule(_, _, _)
FindRule(allPossibleMatches, i, vals) ==
    IF i > Len(allPossibleMatches) THEN Undef
    ELSE IF allPossibleMatches[i] \in DOMAIN vals THEN Str(allPossibleMatches[i])
    ELSE FindRule(allPossibleMatches, i + 1, vals)

\* getFirstMatchingFloor(floorData, bidObject, responseObject): the match, the
\* floor data with its memo as the call leaves it, and whether the call
\* enumerated the candidate keys
GetFirstMatchingFloor(floorData, bidObject, responseObject) ==
    LET Fresh(matchingData, path) ==
            [ floorInfo  |-> matchingData,
              floorData  |-> SaveMatch(floorData, path, matchingData),
              enumerated |-> TRUE ]
        \* use adUnit floorMin as priority, then take the maximum
        WithFloor(matchingData, path) ==
            Fresh([matchingData EXCEPT
                      !.matchingFloor = MathMax(matchingData.floorMin,
                                                matchingData.floorRuleValue)],
                  path)
        WithFloorMin(matchingData, path) ==
            WithFloor(IF IsNumber(bidObject.floorMin)
                      THEN [matchingData EXCEPT !.floorMin = bidObject.floorMin]
                      ELSE matchingData,
                      path)
        Matched(allPossibleMatches, matchingRule, path) ==
            WithFloorMin(
                [ floorMin       |-> OrElse(floorData.floorMin, Num(0)),
                  floorRuleValue |-> IF matchingRule = Undef THEN Undef
                                     ELSE Val(floorData.values)[Val(matchingRule)],
                  matchingData   |-> Str(allPossibleMatches[1]),
                  matchingRule   |-> IF /\ IsObject(floorData.meta)
                                        /\ matchingRule = Str(Val(floorData.meta).defaultRule)
                                     THEN Undef ELSE matchingRule,
                  matchingFloor  |-> Undef ],
                path)
        Enumerated(allPossibleMatches, path) ==
            Matched(allPossibleMatches,
                    FindRule(allPossibleMatches, 1, Val(floorData.values)), path)
        Lookup(fieldValues, path, previousMatch) ==
            IF Truthy(previousMatch)
            THEN [ floorInfo |-> Val(previousMatch), floorData |-> floorData,
                   enumerated |-> FALSE ]
            ELSE Enumerated(GeneratePossibleEnumerations(fieldValues), path)
        WithPath(fieldValues, path) ==
            Lookup(fieldValues, path, PreviousMatch(floorData, path))
        WithFields(fieldValues) ==
            IF Len(fieldValues) = 0
            THEN [ floorInfo |-> NoMatchInfo, floorData |-> floorData, enumerated |-> FALSE ]
            ELSE WithPath(fieldValues,
                          MatchingInputPath([i \in 1..Len(fieldValues) |-> fieldValues[i][1]],
                                            1, << >>))
    IN  WithFields(EnumeratePossibleFieldValues(
                      IF Truthy(SchemaFields(floorData)) THEN Val(SchemaFields(floorData))
                                                         ELSE << >>,
                      bidObject, responseObject))

\* ------------------------------------------------------------------------
\* Floor Enforcement Pipeline: the parts that do not read the module state
\* ------------------------------------------------------------------------

\* String.prototype.toUpperCase over the currency codes of the model
ToUpperCase(s) ==
    CASE s = "usd" -> "USD"
      [] s = "eur" -> "EUR"
      [] OTHER     -> s

\* getGlobal().convertCurrency(cpm, fromCurrency, toCurrency) of the currency
\* module: it throws without rates, else one USD is two EUR (the prices in EUR
\* of the model are even)
ConvertCurrency(cpm, fromCurrency, toCurrency, rates) ==
    CASE rates = "none" ->
            [threw |-> TRUE, value |-> Undef]
      [] rates # "none" /\ fromCurrency = "EUR" /\ toCurrency = "USD" ->
            [threw |-> FALSE, value |-> Num(Val(cpm) \div 2)]
      [] rates # "none" /\ fromCurrency = "USD" /\ toCurrency = "EUR" ->
            [threw |-> FALSE, value |-> Num(Val(cpm) * 2)]
      [] OTHER ->
            [threw |-> TRUE, value |-> Undef]

\* bidderSettings: bidderB registers bidCpmAdjustment = cpm => cpm / 2 (its
\* prices in the model are even), nobody registers inverseBidAdjustment
BidCpmAdjustment(bidder, cpm) ==
    IF bidder = Str("bidderB") THEN Num(Val(cpm) \div 2) ELSE cpm

\* getBiddersCpmAdjustment(inputCpm, bid, bidRequest)
GetBiddersCpmAdjustment(inputCpm, bidder) ==
    IF IsNumber(inputCpm) THEN BidCpmAdjustment(bidder, inputCpm) ELSE NaN

\* calculateAdjustedFloor(oldFloor, newFloor)
CalculateAdjustedFloor(oldFloor, newFloor) ==
    Num((Val(oldFloor) * Val(oldFloor)) \div Val(newFloor))

\* roundUp(number, 4): numbers of the model have one decimal, which it keeps
RoundUp(number) == number

\* getMediaTypesSizes[mediaType](bid): mediaTypes is modelled as a function
\* from the media types of the bid to their lists of sizes
GetMediaTypesSizes(bidRequest, mediaType) ==
    IF IsObject(bidRequest.mediaTypes) /\ mediaType \in DOMAIN Val(bidRequest.mediaTypes)
    THEN Val(bidRequest.mediaTypes)[mediaType]
    ELSE << >>

\* updateRequestParamsFromContext
UpdateRequestParamsFromContext(bidRequest, requestParams) ==
    LET mediaTypesOnBid ==
            IF IsObject(bidRequest.mediaTypes) THEN DOMAIN Val(bidRequest.mediaTypes) ELSE {}
        WithSize(rp) ==
            IF /\ rp.size = Str("*")
               /\ Val(rp.mediaType) \in mediaTypesOnBid
               /\ Val(rp.mediaType) \in {"banner", "video", "native"}
               /\ Len(GetMediaTypesSizes(bidRequest, Val(rp.mediaType))) = 1
            THEN [rp EXCEPT !.size = Obj(GetMediaTypesSizes(bidRequest, Val(rp.mediaType))[1])]
            ELSE rp
    IN  WithSize(IF requestParams.mediaType = Str("*") /\ Cardinality(mediaTypesOnBid) = 1
                 THEN [requestParams EXCEPT
                          !.mediaType = Str(CHOOSE m \in mediaTypesOnBid : TRUE)]
                 ELSE requestParams)

\* deepAccess(floorData, 'enforcement.<flag>')
EnforcementFlag(floorData, flag) ==
    IF IsObject(floorData.enforcement) THEN Val(floorData.enforcement)[flag] ELSE Undef

\* the bid is given the floor context only when its price is below the floor
AddFloorDataToBidWhenBelow(floorData, floorInfo, bid, adjustedCpm) ==
    [bid EXCEPT !.floorData = Obj(
        [ floorValue          |-> IF IsNumber(adjustedCpm)
                                        /\ Val(adjustedCpm) < Val(floorInfo.matchingFloor)
                                  THEN floorInfo.matchingFloor ELSE Undef,
          floorRule           |-> Undef,
          floorRuleValue      |-> Undef,
          floorCurrency       |-> Undef,
          cpmAfterAdjustments |-> adjustedCpm,
          enforcements        |-> Undef,
          matchedFields       |-> << >> ])]

\* addFloorDataToBid
AddFloorDataToBid(floorData, floorInfo, bid, adjustedCpm) ==
    LET Fields(fields) ==
            [i \in 1..Len(fields) |-> <<fields[i], Val(floorInfo.matchingData)[i]>>]
    IN  [bid EXCEPT !.floorData = Obj(
            [ floorValue          |-> floorInfo.matchingFloor,
              floorRule           |-> floorInfo.matchingRule,
              floorRuleValue      |-> floorInfo.floorRuleValue,
              floorCurrency       |-> DataOf(floorData).currency,
              cpmAfterAdjustments |-> adjustedCpm,
              enforcements        |-> floorData.enforcement,
              matchedFields       |-> Fields(Val(SchemaFields(DataOf(floorData)))) ])]

\* the bail-out test without the test of `skipped`
NoFloorsForMissing(floorData) == ~Truthy(floorData)

\* !floorData || floorData.skipped
NoFloorsFor(floorData) ==
    ~Truthy(floorData) \/ Truthy(Val(floorData).skipped)

\* the base cpm with the catch block comparing the cpm as it came
BaseCpmUnconverted(bid, floorCurrency, rates) ==
    LET bidResponseCurrency == Val(OrElse(bid.currency, Str("USD")))
    IN  IF floorCurrency = ToUpperCase(bidResponseCurrency)
        THEN [threw |-> FALSE, value |-> bid.cpm]
        ELSE IF /\ Truthy(bid.originalCurrency)
                /\ floorCurrency = ToUpperCase(Val(bid.originalCurrency))
             THEN [threw |-> FALSE, value |-> bid.originalCpm]
             ELSE [threw |-> FALSE, value |-> bid.cpm]

\* the base cpm without the branch for the original currency
BaseCpmWithoutOriginal(bid, floorCurrency, rates) ==
    LET bidResponseCurrency == Val(OrElse(bid.currency, Str("USD")))
    IN  IF floorCurrency = ToUpperCase(bidResponseCurrency)
        THEN [threw |-> FALSE, value |-> bid.cpm]
        ELSE ConvertCurrency(bid.cpm, ToUpperCase(bidResponseCurrency),
                             floorCurrency, rates)

\* the base cpm of addBidResponseHook, in the currency of the floor: the cpm,
\* the original cpm, or the converted cpm, unless the conversion throws
BaseCpm(bid, floorCurrency, rates) ==
    LET bidResponseCurrency == Val(OrElse(bid.currency, Str("USD")))
    IN  IF floorCurrency = ToUpperCase(bidResponseCurrency)
        THEN [threw |-> FALSE, value |-> bid.cpm]
        ELSE IF /\ Truthy(bid.originalCurrency)
                /\ floorCurrency = ToUpperCase(Val(bid.originalCurrency))
             THEN [threw |-> FALSE, value |-> bid.originalCpm]
             ELSE ConvertCurrency(bid.cpm, ToUpperCase(bidResponseCurrency),
                                  floorCurrency, rates)

\* the conversion of getFloor with a catch block that keeps the currency asked for
FloorInCurrencyAsAsked(matchingFloor, floorCurrency, currency, rates) ==
    LET Converted(c) ==
            IF c.threw
            THEN [floor |-> matchingFloor, currency |-> currency]
            ELSE [floor |-> c.value, currency |-> currency]
    IN  IF Truthy(matchingFloor) /\ currency # floorCurrency
        THEN Converted(ConvertCurrency(matchingFloor, Val(floorCurrency), Val(currency), rates))
        ELSE [floor |-> matchingFloor, currency |-> currency]

\* the conversion of getFloor: the floor in the currency asked for, or, when
\* the conversion throws, the floor as it is with the currency of the floors
FloorInCurrency(matchingFloor, floorCurrency, currency, rates) ==
    LET Converted(c) ==
            IF c.threw
            THEN [floor |-> matchingFloor, currency |-> floorCurrency]
            ELSE [floor |-> c.value, currency |-> currency]
    IN  IF Truthy(matchingFloor) /\ currency # floorCurrency
        THEN Converted(ConvertCurrency(matchingFloor, Val(floorCurrency), Val(currency), rates))
        ELSE [floor |-> matchingFloor, currency |-> currency]

\* shouldFloorBid without the enforceJS flag
ShouldFloorBidAlways(floorData, floorInfo, bid) ==
    LET shouldFloorDeal == EnforcementFlag(floorData, "floorDeals") = Bool(TRUE)
                              \/ ~Truthy(bid.dealId)
        after           == Val(bid.floorData).cpmAfterAdjustments
        bidBelowFloor   == /\ IsNumber(after) /\ IsNumber(floorInfo.matchingFloor)
                           /\ Val(after) < Val(floorInfo.matchingFloor)
    IN  bidBelowFloor /\ shouldFloorDeal

\* shouldFloorBid
ShouldFloorBid(floorData, floorInfo, bid) ==
    LET enforceJS       == EnforcementFlag(floorData, "enforceJS") # Bool(FALSE)
        shouldFloorDeal == EnforcementFlag(floorData, "floorDeals") = Bool(TRUE)
                              \/ ~Truthy(bid.dealId)
        after           == Val(bid.floorData).cpmAfterAdjustments
        bidBelowFloor   == /\ IsNumber(after) /\ IsNumber(floorInfo.matchingFloor)
                           /\ Val(after) < Val(floorInfo.matchingFloor)
    IN  enforceJS /\ (bidBelowFloor /\ shouldFloorDeal)

\* ------------------------------------------------------------------------
\* Fetch & Delay Coordinator: the module state
\* ------------------------------------------------------------------------
VARIABLES
    fetching,              \* let fetching
    addedFloorsHook,       \* let addedFloorsHook
    floorsConfig,          \* let _floorsConfig
    delayedAuctions,       \* let _delayedAuctions: sequence of hookConfigs (by auction)
    floorDataForAuction,   \* let _floorDataForAuction: auction id -> floor data
    allowedFields,         \* let allowedFields
    hookConfigs,           \* the hookConfig objects requestBidsHook has created
    timers,                \* setTimeout handles that are armed
    pendingFetch,          \* ajax requests sent and not yet settled
    nextFnLog,             \* auctions whose nextFn was invoked, in invocation order
    auctionEndListeners,   \* number of AUCTION_END listeners the module has registered
    evictTimers,           \* auction id -> armed timers that will delete its floor data
    auctionsEnded,         \* auctions whose AUCTION_END event was emitted
    floorQueries,          \* number of bid responses and getFloor calls so far
    pbjsSkipRate,          \* the page's pbjs_skipRate query parameter
    configUpdates,         \* number of configuration updates so far
    ev,                    \* the handler that ran last and its argument
    prev                   \* the module state before that handler ran

vars == <<fetching, addedFloorsHook, floorsConfig, delayedAuctions, floorDataForAuction,
          allowedFields, hookConfigs, timers, pendingFetch, nextFnLog,
          auctionEndListeners, evictTimers, auctionsEnded, floorQueries, pbjsSkipRate,
          configUpdates, ev, prev>>

\* Bounds of the model
MaxAuctions == 2

MaxConfigUpdates == 2

Auctions == 1..MaxAuctions

\* hookConfig.timer of an auction that is not deferred
NullTimer == 0

\* Math.random(), in hundredths
RandomDraws == {10, 90}

Rnd == [model : RandomDraws, skip : RandomDraws]

\* The draws of the auctions in `resolved`, under the configuration cfg; a draw
\* the code does not make (no model groups to pick from, auction not resolved)
\* is fixed, as its value changes nothing
UnusedDraw == CHOOSE d \in RandomDraws : TRUE

DrawsFor(resolved, cfg) ==
    {rnds \in [Auctions -> Rnd] :
        \A a \in Auctions :
           /\ a \notin resolved => rnds[a].skip = UnusedDraw
           /\ (a \notin resolved \/ DataOf(cfg).floorsSchemaVersion # Num(2))
                 => rnds[a].model = UnusedDraw}

\* The module state as one record
Cur ==
    [ fetching            |-> fetching,
      addedFloorsHook     |-> addedFloorsHook,
      floorsConfig        |-> floorsConfig,
      delayedAuctions     |-> delayedAuctions,
      floorDataForAuction |-> floorDataForAuction,
      allowedFields       |-> allowedFields,
      hookConfigs         |-> hookConfigs,
      timers              |-> timers,
      pendingFetch        |-> pendingFetch,
      nextFnLog           |-> nextFnLog,
      auctionEndListeners |-> auctionEndListeners,
      evictTimers         |-> evictTimers,
      auctionsEnded       |-> auctionsEnded ]

\* What `prev` keeps of the module state: the coordinator's own variables
Snapshot(S) ==
    [ fetching        |-> S.fetching,
      addedFloorsHook |-> S.addedFloorsHook,
      floorsConfig    |-> S.floorsConfig,
      delayedAuctions |-> S.delayedAuctions,
      timers          |-> S.timers,
      pendingFetch    |-> S.pendingFetch,
      nextFnLog       |-> S.nextFnLog ]

NoHookConfig ==
    [ started |-> FALSE, timer |-> NullTimer, hasExited |-> FALSE, adUnits |-> << >> ]

InitState ==
    [ fetching            |-> FALSE,
      addedFloorsHook     |-> FALSE,
      floorsConfig        |-> EmptyConfig,
      delayedAuctions     |-> << >>,
      floorDataForAuction |-> [a \in Auctions |-> Undef],
      allowedFields       |-> SeqToSet(BuiltinFields),
      hookConfigs         |-> [a \in Auctions |-> NoHookConfig],
      timers              |-> {},
      pendingFetch        |-> 0,
      nextFnLog           |-> << >>,
      auctionEndListeners |-> 0,
      evictTimers         |-> [a \in Auctions |-> 0],
      auctionsEnded       |-> {} ]

\* ------------------------------------------------------------------------
\* Fetch & Delay Coordinator: the handlers, as functions of the module state
\* ------------------------------------------------------------------------

\* the filter of continueAuction keeping nothing
StillDelayedNone(S, a) == << >>

\* continueAuction, the filter of _delayedAuctions: the hookConfigs whose timer is
\* not the timer of the auction being continued
StillDelayed(S, a) ==
    SelectSeq(S.delayedAuctions,
              LAMBDA b : S.hookConfigs[b].timer # S.hookConfigs[a].timer)

\* continueAuction without its exit bookkeeping: it runs on every call and leaves
\* the queue alone
ContinueAuctionEveryCall(S, a, rnd, urlSkipRate) ==
    LET Exit(res) ==
            [S EXCEPT
                !.floorDataForAuction[a] = Obj(res.floorData),
                !.hookConfigs[a].adUnits = res.adUnits,
                !.nextFnLog = Append(@, a)]
    IN  Exit(CreateFloorsDataForAuction(S.floorsConfig, S.hookConfigs[a].adUnits,
                                        Num(a), rnd, S.allowedFields, urlSkipRate))

\* continueAuction(hookConfig)
ContinueAuction(S, a, rnd, urlSkipRate) ==
    LET Exit(res) ==
            [S EXCEPT
                !.delayedAuctions = StillDelayed(S, a),
                !.floorDataForAuction[a] = Obj(res.floorData),
                !.hookConfigs[a].adUnits = res.adUnits,
                !.hookConfigs[a].hasExited = TRUE,
                !.nextFnLog = Append(@, a)]
    IN  IF S.hookConfigs[a].hasExited
        THEN S
        ELSE Exit(CreateFloorsDataForAuction(S.floorsConfig, S.hookConfigs[a].adUnits,
                                             Num(a), rnd, S.allowedFields, urlSkipRate))

\* the delay test with >= in place of >
DelayNotNegative(cfg) ==
    IsNumber(cfg.auctionDelay) /\ Val(cfg.auctionDelay) >= 0

\* config.auctionDelay > 0
DelayPositive(cfg) ==
    IsNumber(cfg.auctionDelay) /\ Val(cfg.auctionDelay) > 0

\* requestBidsHook deferring the auction whenever a delay is configured, fetch
\* or no fetch
RequestBidsHookDelayAlone(S, a, adUnits, rnd, urlSkipRate) ==
    IF DelayPositive(S.floorsConfig)
    THEN [S EXCEPT
            !.hookConfigs[a] = [started |-> TRUE, timer |-> a, hasExited |-> FALSE,
                                adUnits |-> adUnits],
            !.timers = @ \cup {a},
            !.delayedAuctions = Append(@, a)]
    ELSE ContinueAuction(
            [S EXCEPT !.hookConfigs[a] = [started |-> TRUE, timer |-> NullTimer,
                                          hasExited |-> FALSE, adUnits |-> adUnits]],
            a, rnd, urlSkipRate)

\* requestBidsHook(fn, reqBidsConfigObj) for a new auction a
RequestBidsHook(S, a, adUnits, rnd, urlSkipRate) ==
    IF DelayPositive(S.floorsConfig) /\ S.fetching
    THEN [S EXCEPT
            !.hookConfigs[a] = [started |-> TRUE, timer |-> a, hasExited |-> FALSE,
                                adUnits |-> adUnits],
            !.timers = @ \cup {a},
            !.delayedAuctions = Append(@, a)]
    ELSE ContinueAuction(
            [S EXCEPT !.hookConfigs[a] = [started |-> TRUE, timer |-> NullTimer,
                                          hasExited |-> FALSE, adUnits |-> adUnits]],
            a, rnd, urlSkipRate)

\* the timeout callback without the call of continueAuction
AuctionTimeoutNoContinue(S, a, rnd, urlSkipRate) ==
    [S EXCEPT !.timers = @ \ {a},
              !.floorsConfig.fetchStatus = Str("timeout")]

\* the setTimeout callback of requestBidsHook for the deferred auction a
AuctionTimeout(S, a, rnd, urlSkipRate) ==
    ContinueAuction(
        [S EXCEPT !.timers = @ \ {a},
                  !.floorsConfig.fetchStatus = Str("timeout")],
        a, rnd, urlSkipRate)

\* resumeDelayedAuctions walking _delayedAuctions as continueAuction leaves it,
\* not the array the forEach started on
RECURSIVE ResumeFromLive(_, _, _, _, _)
ResumeFromLive(S, queue, i, rnds, urlSkipRate) ==
    IF i > Len(S.delayedAuctions)
    THEN S
    ELSE ResumeFromLive(
            ContinueAuction([S EXCEPT !.timers = @ \ {S.hookConfigs[S.delayedAuctions[i]].timer}],
                            S.delayedAuctions[i], rnds[S.delayedAuctions[i]], urlSkipRate),
            queue, i + 1, rnds, urlSkipRate)

\* resumeDelayedAuctions: forEach over the array as it is when the call starts
RECURSIVE ResumeFrom(_, _, _, _, _)
ResumeFrom(S, queue, i, rnds, urlSkipRate) ==
    IF i > Len(queue)
    THEN S
    ELSE ResumeFrom(
            ContinueAuction([S EXCEPT !.timers = @ \ {S.hookConfigs[queue[i]].timer}],
                            queue[i], rnds[queue[i]], urlSkipRate),
            queue, i + 1, rnds, urlSkipRate)

ResumeDelayedAuctions(S, rnds, urlSkipRate) ==
    [ResumeFrom(S, S.delayedAuctions, 1, rnds, urlSkipRate) EXCEPT
        !.delayedAuctions = << >>]

\* handleFetchResponse resuming the delayed auctions before it installs the
\* fetched data
HandleFetchResponseResumeFirst(S, fetchResponse, rnds, urlSkipRate) ==
    LET Updated(c0, fetchData) ==
            IF Truthy(fetchData)
            THEN [c0 EXCEPT
                    !.data          = fetchData,
                    !.skipRate      = IF IsNumber(Val(fetchData).skipRate)
                                      THEN Val(fetchData).skipRate ELSE @,
                    !.floorProvider = OrElse(Val(fetchData).floorProvider, @)]
            ELSE c0
        Install(R) ==
            [R EXCEPT !.floorsConfig =
                          Updated(@, ParseFloorData(fetchResponse, "fetch", S.allowedFields))]
    IN  Install(ResumeDelayedAuctions(
            [S EXCEPT
                !.fetching     = FALSE,
                !.floorsConfig.fetchStatus = Str("success"),
                !.pendingFetch = @ - 1],
            rnds, urlSkipRate))

\* handleFetchResponse(fetchResponse); the response is modelled after JSON.parse
HandleFetchResponse(S, fetchResponse, rnds, urlSkipRate) ==
    LET Updated(c0, fetchData) ==
            IF Truthy(fetchData)
            THEN [c0 EXCEPT
                    !.data          = fetchData,
                    !.skipRate      = IF IsNumber(Val(fetchData).skipRate)
                                      THEN Val(fetchData).skipRate ELSE @,
                    !.floorProvider = OrElse(Val(fetchData).floorProvider, @)]
            ELSE c0
    IN  ResumeDelayedAuctions(
            [S EXCEPT
                !.fetching     = FALSE,
                !.floorsConfig = Updated([@ EXCEPT !.fetchStatus = Str("success")],
                                         ParseFloorData(fetchResponse, "fetch",
                                                        S.allowedFields)),
                !.pendingFetch = @ - 1],
            rnds, urlSkipRate)

\* handleFetchError without the reset of `fetching`
HandleFetchErrorStillFetching(S, rnds, urlSkipRate) ==
    ResumeDelayedAuctions(
        [S EXCEPT !.floorsConfig.fetchStatus = Str("error"),
                  !.pendingFetch = @ - 1],
        rnds, urlSkipRate)

\* handleFetchError(status)
HandleFetchError(S, rnds, urlSkipRate) ==
    ResumeDelayedAuctions(
        [S EXCEPT !.fetching = FALSE,
                  !.floorsConfig.fetchStatus = Str("error"),
                  !.pendingFetch = @ - 1],
        rnds, urlSkipRate)

\* generateAndHandleFetch without the test of `fetching`
GenerateAndHandleFetchAlways(S, floorEndpoint) ==
    IF Truthy(floorEndpoint.url)
    THEN IF OrElse(floorEndpoint.method, Str("GET")) # Str("GET")
         THEN S
         ELSE [S EXCEPT !.pendingFetch = @ + 1, !.fetching = TRUE]
    ELSE S

\* generateAndHandleFetch(floorEndpoint)
GenerateAndHandleFetch(S, floorEndpoint) ==
    IF Truthy(floorEndpoint.url) /\ ~S.fetching
    THEN IF OrElse(floorEndpoint.method, Str("GET")) # Str("GET")
         THEN S
         ELSE [S EXCEPT !.pendingFetch = @ + 1, !.fetching = TRUE]
    ELSE S


\* addFieldOverrides: the publisher's fields whose resolver is a function
AddFieldOverrides(allowed, overrides) ==
    allowed \cup {f \in DOMAIN overrides : overrides[f] = "function"}

\* the enforcement part of pick(config, [...])
PickEnforcement(enforcement) ==
    LET e == IF Truthy(enforcement) THEN Val(enforcement)
             ELSE [enforceJS |-> Undef, enforcePBS |-> Undef, floorDeals |-> Undef,
                   bidAdjustment |-> Undef, noFloorSignalBidders |-> Undef]
    IN  Obj([ enforceJS     |-> Bool(e.enforceJS # Bool(FALSE)),
              enforcePBS    |-> Bool(e.enforcePBS = Bool(TRUE)),
              floorDeals    |-> Bool(e.floorDeals = Bool(TRUE)),
              bidAdjustment |-> Bool(e.bidAdjustment # Bool(FALSE)),
              noFloorSignalBidders |->
                  IF Truthy(e.noFloorSignalBidders) THEN Val(e.noFloorSignalBidders)
                                                    ELSE << >> ])

NoEndpoint == [url |-> Undef, method |-> Undef]

\* handleSetFloorsConfig(config)
HandleSetFloorsConfig(S, config) ==
    LET Picked(rawData, allowed) ==
            [ floorMin      |-> config.floorMin,
              enabled       |-> Bool(config.enabled # Bool(FALSE)),
              auctionDelay  |-> OrElse(config.auctionDelay, Num(0)),
              floorProvider |-> Coalesce(rawData.floorProvider, config.floorProvider),
              endpoint      |-> OrElse(config.endpoint, Obj(NoEndpoint)),
              skipRate      |-> IF IsNumber(rawData.skipRate) THEN rawData.skipRate
                                ELSE OrElse(config.skipRate, Num(0)),
              enforcement   |-> PickEnforcement(config.enforcement),
              data          |-> IF Truthy(config.data)
                                THEN ParseFloorData(config.data, "setConfig", allowed)
                                ELSE Undef,
              fetchStatus   |-> Undef,
              skipped       |-> Undef ]
        Apply(picked, allowed) ==
            IF Truthy(picked.enabled)
            THEN [GenerateAndHandleFetch(
                     [S EXCEPT !.floorsConfig = picked, !.allowedFields = allowed],
                     Val(picked.endpoint))
                  EXCEPT !.addedFloorsHook = TRUE,
                         !.auctionEndListeners = IF S.addedFloorsHook THEN @ ELSE @ + 1]
            ELSE [S EXCEPT
                     !.allowedFields = allowed,
                     !.floorsConfig = EmptyConfig,
                     !.floorDataForAuction = [a \in Auctions |-> Undef],
                     !.addedFloorsHook = FALSE]
        WithFields(rawData, allowed) == Apply(Picked(rawData, allowed), allowed)
    IN  WithFields(IF IsObject(config.data) THEN Val(config.data) ELSE EmptyData,
                   IF IsObject(config.additionalSchemaFields)
                      /\ DOMAIN Val(config.additionalSchemaFields) # {}
                   THEN AddFieldOverrides(S.allowedFields,
                                          Val(config.additionalSchemaFields))
                   ELSE S.allowedFields)

\* ------------------------------------------------------------------------
\* Floor Enforcement Pipeline: the handlers, as functions of the module state
\* ------------------------------------------------------------------------

\* a write to the floors data object `data` (its memo): every holder of that
\* object sees it, the per-auction entries and _floorsConfig alike
WriteFloorData(S, data) ==
    [S EXCEPT
        !.floorDataForAuction =
            [b \in Auctions |->
                IF IsObject(@[b]) /\ IsObject(Val(@[b]).data)
                                  /\ DataOf(Val(@[b])).ref = data.ref
                THEN Obj([Val(@[b]) EXCEPT !.data = Obj(data)])
                ELSE @[b]],
        !.floorsConfig =
            IF IsObject(@.data) /\ DataOf(@).ref = data.ref
            THEN [@ EXCEPT !.data = Obj(data)]
            ELSE @]

\* the end of the hook with the `return` after reject(...) left out
RejectAndAccept(shouldFloor) ==
    IF shouldFloor THEN <<"reject", "fn">> ELSE <<"fn">>

\* the end of addBidResponseHook: reject(FLOOR_NOT_MET) and return, or else
\* fn.call(this, adUnitCode, bid, reject)
RejectOrAccept(shouldFloor) ==
    IF shouldFloor THEN <<"reject">> ELSE <<"fn">>

\* addBidResponseHook(fn, adUnitCode, bid, reject): the module state it leaves,
\* the calls of fn and reject it made, the bid as it leaves the hook, what it
\* logged, and the match it looked up. matchingBidRequest is
\* auctionManager.index.getBidRequest(bid); rates is what the currency module
\* has to convert with
AddBidResponseHook(S, bid, matchingBidRequest, rates) ==
    LET Out(state, calls, outBid, logs, match) ==
            [ state      |-> state,
              calls      |-> calls,
              bid        |-> outBid,
              logs       |-> logs,
              floorInfo  |-> match.floorInfo,
              enumerated |-> match.enumerated ]
        \* now do the compare
        Decide(fd, match, state, outBid) ==
            Out(state, RejectOrAccept(ShouldFloorBid(fd, match.floorInfo, outBid)), outBid,
                IF ShouldFloorBid(fd, match.floorInfo, outBid) THEN <<"logWarn">> ELSE << >>,
                match)
        Compare(fd, match, state, adjustedCpm) ==
            Decide(fd, match, state,
                   AddFloorDataToBid(fd, match.floorInfo, bid,
                                     GetBiddersCpmAdjustment(adjustedCpm, bid.bidderCode)))
        InCurrency(fd, match, state, c) ==
            IF c.threw
            THEN Out(state, <<"fn">>, bid, <<"logError">>, match)
            ELSE Compare(fd, match, state, c.value)
        Matched(fd, match, state) ==
            IF ~Truthy(match.floorInfo.matchingFloor)
            THEN Out(state, <<"fn">>, bid,
                     IF match.floorInfo.matchingFloor # Num(0) THEN <<"logWarn">> ELSE << >>,
                     match)
            ELSE InCurrency(fd, match, state,
                            BaseCpm(bid, ToUpperCase(Val(DataOf(fd).currency)), rates))
        WithMatch(fd, match) ==
            Matched(fd, match, WriteFloorData(S, match.floorData))
        WithFloorData(floorData) ==
            IF NoFloorsFor(floorData)
            THEN Out(S, <<"fn">>, bid, << >>,
                     [floorInfo |-> NoMatchInfo, enumerated |-> FALSE])
            ELSE WithMatch(Val(floorData),
                           GetFirstMatchingFloor(DataOf(Val(floorData)), matchingBidRequest,
                                                 bid))
    IN  WithFloorData(S.floorDataForAuction[Val(bid.auctionId)])

\* the result {} of getFloor
NoFloor == [floor |-> Undef, currency |-> Undef]

\* getFloor(requestParams) called on bidRequest: the module state it leaves, the
\* object it returns (or that it threw), and the match it looked up
GetFloor(S, bidRequest, params, rates) ==
    LET Out(state, result, threw, match) ==
            [ state      |-> state,
              result     |-> result,
              threw      |-> threw,
              floorInfo  |-> match.floorInfo,
              enumerated |-> match.enumerated ]
        Result(state, match, matchingFloor, currency) ==
            Out(state,
                IF Truthy(matchingFloor)
                THEN [floor |-> RoundUp(matchingFloor), currency |-> currency]
                ELSE NoFloor,
                FALSE, match)
        \* the bidder's cpm adjustment turned around; nobody registers an
        \* inverseBidAdjustment
        FromAdjustment(matchingFloor, cpmAdjustment) ==
            IF Truthy(cpmAdjustment)
            THEN CalculateAdjustedFloor(matchingFloor, cpmAdjustment)
            ELSE matchingFloor
        Adjusted(fd, state, match, in) ==
            IF ~IsObject(fd.enforcement)
            THEN Out(state, NoFloor, TRUE, match)
            ELSE Result(state, match,
                        IF Truthy(Val(fd.enforcement).bidAdjustment) /\ Truthy(in.floor)
                        THEN FromAdjustment(in.floor,
                                 GetBiddersCpmAdjustment(in.floor, bidRequest.bidder))
                        ELSE in.floor,
                        in.currency)
        WithMatch(fd, requestParams, match) ==
            Adjusted(fd, WriteFloorData(S, match.floorData), match,
                     FloorInCurrency(match.floorInfo.matchingFloor, DataOf(fd).currency,
                                     OrElse(requestParams.currency, DataOf(fd).currency),
                                     rates))
        WithParams(fd, requestParams) ==
            WithMatch(fd, requestParams,
                      GetFirstMatchingFloor(DataOf(fd), bidRequest,
                                            [ mediaType  |-> requestParams.mediaType,
                                              size       |-> requestParams.size,
                                              adUnitCode |-> Undef ]))
        WithFloorData(floorData) ==
            IF NoFloorsFor(floorData)
            THEN Out(S, NoFloor, FALSE, [floorInfo |-> NoMatchInfo, enumerated |-> FALSE])
            ELSE WithParams(Val(floorData),
                            UpdateRequestParamsFromContext(bidRequest, params))
    IN  WithFloorData(S.floorDataForAuction[Val(bidRequest.auctionId)])

\* the AUCTION_END listeners: each one registered arms a 3000 ms timer
AuctionEndListeners(S, a) ==
    [S EXCEPT !.evictTimers[a] = @ + S.auctionEndListeners,
              !.auctionsEnded  = @ \cup {a}]

\* the callback deleting the floor data of every auction
EvictEveryFloorData(S, a) ==
    [S EXCEPT !.floorDataForAuction = [b \in Auctions |-> Undef],
              !.evictTimers[a] = @ - 1]

\* the callback of such a timer: delete _floorDataForAuction[args.auctionId]
EvictFloorData(S, a) ==
    [S EXCEPT !.floorDataForAuction[a] = Undef,
              !.evictTimers[a] = @ - 1]

\* ------------------------------------------------------------------------
\* Inputs
\* ------------------------------------------------------------------------
MediaSizeSchema == Schema(Obj(<<"mediaType", "size">>), Str("|"))

\* floor prices are in tenths of a currency unit
InlineCatalog ==
    [EmptyData EXCEPT
        !.schema   = MediaSizeSchema,
        !.currency = Str("USD"),
        !.values   = Obj((<<"banner", "300x250">> :> Num(15)) @@
                         (<<"banner", "*">> :> Num(10)) @@
                         (<<"*", "*">> :> Num(5)))]

FetchedCatalog ==
    [EmptyData EXCEPT
        !.schema        = MediaSizeSchema,
        !.currency      = Str("USD"),
        !.skipRate      = Num(50),
        !.floorProvider = Str("fetchProvider"),
        !.modelVersion  = Str("fetched-model"),
        !.values        = Obj((<<"banner", "*">> :> Num(20)) @@
                              (<<"*">> :> Num(1)) @@
                              (<<"*", "*">> :> Str("3")))]

\* no rule of it has two segments and a numeric floor
NoRuleCatalog ==
    [FetchedCatalog EXCEPT
        !.values = Obj((<<"banner">> :> Num(20)) @@ (<<"*", "*">> :> Str("3")))]

\* its schema names a field that is not allowed
BadFieldCatalog ==
    [FetchedCatalog EXCEPT !.schema = Schema(Obj(<<"mediaType", "color">>), Str("|"))]

FetchResponses ==
    {Obj(FetchedCatalog), Obj(NoRuleCatalog), Str("not json")}

RawConfig ==
    [ floorMin |-> Undef, enabled |-> Undef, auctionDelay |-> Undef,
      floorProvider |-> Undef, endpoint |-> Undef, skipRate |-> Undef,
      enforcement |-> Undef, additionalSchemaFields |-> Undef, data |-> Undef ]

Endpoint(method) == Obj([url |-> Str("https://floors.example/rules.json"), method |-> method])

Configs ==
    { \* an endpoint with a delay budget, on top of an inline catalog
      [RawConfig EXCEPT !.enabled = Bool(TRUE), !.auctionDelay = Num(100),
                        !.endpoint = Endpoint(Str("GET")), !.data = Obj(InlineCatalog),
                        !.skipRate = Num(0), !.floorProvider = Str("inline")],
      \* an endpoint without method and without delay budget, nothing inline
      [RawConfig EXCEPT !.endpoint = Endpoint(Undef)],
      \* an endpoint with a method other than GET, and an invalid inline catalog
      [RawConfig EXCEPT !.auctionDelay = Num(100), !.endpoint = Endpoint(Str("POST")),
                        !.data = Obj(BadFieldCatalog)],
      \* an inline catalog and no endpoint
      [RawConfig EXCEPT !.data = Obj(InlineCatalog), !.floorProvider = Str("inline")],
      \* floors turned off
      [RawConfig EXCEPT !.enabled = Bool(FALSE), !.auctionDelay = Num(100),
                        !.endpoint = Endpoint(Str("GET")), !.data = Obj(InlineCatalog)] }

Bid(bidder) ==
    [bidder |-> bidder, getFloor |-> FALSE, auctionId |-> Undef, floorData |-> Undef]

AdUnit(code, floors, bidders) ==
    [code |-> code, floors |-> floors,
     bids |-> [i \in 1..Len(bidders) |-> Bid(bidders[i])]]

AdUnitFloors ==
    [EmptyData EXCEPT
        !.schema = Schema(Obj(<<"mediaType">>), Undef),
        !.values = Obj((<<"Banner">> :> Num(7)) @@ (<<"*">> :> Num(2)))]

AdUnitInputs ==
    { <<AdUnit("AU1", Obj(AdUnitFloors), <<"bidderA">>),
        AdUnit("AU2", Undef, <<"bidderA", "bidderB">>)>> }

PbjsSkipRates == {Str("")}

\* ---- inputs of the enforcement pipeline ----

\* two candidates with one '*' each, and a rule whose floor is 0
TieCatalog ==
    [EmptyData EXCEPT
        !.schema   = MediaSizeSchema,
        !.currency = Str("USD"),
        !.values   = Obj((<<"banner", "*">> :> Num(10)) @@
                         (<<"*", "300x250">> :> Num(8)) @@
                         (<<"video", "*">> :> Num(0)))]

Enforcement(enforceJS, floorDeals) ==
    Obj([ enforceJS |-> enforceJS, enforcePBS |-> Undef, floorDeals |-> floorDeals,
          bidAdjustment |-> Undef, noFloorSignalBidders |-> Undef ])

EnforcementConfigs ==
    { \* the inline catalog under a floorMin, default enforcement
      [RawConfig EXCEPT !.data = Obj(InlineCatalog), !.floorMin = Num(12)],
      \* deals are floored too; half of the auctions are skipped
      [RawConfig EXCEPT !.data = Obj(TieCatalog), !.skipRate = Num(50),
                        !.enforcement = Enforcement(Undef, Bool(TRUE))],
      \* floors are looked up but not enforced
      [RawConfig EXCEPT !.data = Obj(InlineCatalog),
                        !.enforcement = Enforcement(Bool(FALSE), Undef)],
      \* floors turned off
      [RawConfig EXCEPT !.enabled = Bool(FALSE)] }

\* ortb2Imp.ext.prebid.floors.floorMin of the bid requests of an ad unit
Ortb2ImpFloorMin(adUnitCode) ==
    IF adUnitCode = "AU1" THEN Num(20) ELSE Undef

\* mediaTypes of the bid requests of an ad unit: per media type its sizes
MediaTypesOf(adUnitCode) ==
    IF adUnitCode = "AU1"
    THEN Obj([m \in {"banner"} |-> << <<300, 250>> >>])
    ELSE Obj([m \in {"banner", "video"} |->
                 IF m = "banner" THEN << <<300, 250>>, <<640, 480>> >>
                                 ELSE << <<640, 480>> >>])

\* the bid request of a bidder for an ad unit of auction a
BidRequestOf(a, adUnitCode, bidder) ==
    [ auctionId  |-> Num(a),
      adUnitCode |-> Str(adUnitCode),
      bidder     |-> Str(bidder),
      floorMin   |-> Ortb2ImpFloorMin(adUnitCode),
      mediaTypes |-> MediaTypesOf(adUnitCode) ]

\* a bid response; size is [bid.width, bid.height]
BidResponse(adUnitCode, bidderCode, mediaType, size, cpm, currency) ==
    [ auctionId        |-> Undef,
      adUnitCode       |-> Str(adUnitCode),
      bidderCode       |-> Str(bidderCode),
      mediaType        |-> mediaType,
      size             |-> Obj(size),
      cpm              |-> Num(cpm),
      currency         |-> currency,
      originalCpm      |-> Num(cpm),
      originalCurrency |-> currency,
      dealId           |-> Undef,
      floorData        |-> Undef ]

\* the bid responses of the model, each with what the currency module holds
\* when it arrives
BidResponseInputs ==
    { [ bid   |-> BidResponse("AU1", "bidderA", Str("banner"), <<300, 250>>, 24, Str("USD")),
        rates |-> "default" ],
      [ bid   |-> BidResponse("AU2", "bidderA", Str("banner"), <<300, 250>>, 16, Str("USD")),
        rates |-> "default" ],
      \* a deal of a bidder whose cpm is adjusted
      [ bid   |-> [BidResponse("AU2", "bidderB", Str("banner"), <<640, 480>>, 16, Str("USD"))
                      EXCEPT !.dealId = Str("deal1")],
        rates |-> "default" ],
      [ bid   |-> BidResponse("AU2", "bidderA", Str("video"), <<640, 480>>, 4, Str("USD")),
        rates |-> "default" ],
      \* a bid in another currency, with and without conversion rates
      [ bid   |-> BidResponse("AU2", "bidderA", Str("banner"), <<640, 480>>, 8, Str("eur")),
        rates |-> "default" ],
      [ bid   |-> BidResponse("AU2", "bidderA", Str("banner"), <<640, 480>>, 8, Str("eur")),
        rates |-> "none" ],
      \* a bid the currency module has converted already
      [ bid   |-> [BidResponse("AU2", "bidderA", Str("banner"), <<300, 250>>, 30, Str("EUR"))
                      EXCEPT !.originalCpm = Num(14), !.originalCurrency = Str("usd")],
        rates |-> "default" ],
      \* no media type, no currency
      [ bid   |-> BidResponse("AU2", "bidderA", Str("native"), <<640, 480>>, 4, Undef),
        rates |-> "default" ] }

RequestParams(currency, mediaType, size) ==
    [currency |-> currency, mediaType |-> mediaType, size |-> size]

\* the getFloor calls of the model: bidderA's adapter asks, for an ad unit
GetFloorInputs ==
    { [ adUnitCode |-> "AU1", rates |-> "default",
        params |-> RequestParams(Str("USD"), Str("*"), Str("*")) ],
      [ adUnitCode |-> "AU2", rates |-> "default",
        params |-> RequestParams(Str("USD"), Str("banner"), Obj(<<300, 250>>)) ],
      [ adUnitCode |-> "AU2", rates |-> "default",
        params |-> RequestParams(Str("EUR"), Str("banner"), Obj(<<300, 250>>)) ],
      [ adUnitCode |-> "AU2", rates |-> "none",
        params |-> RequestParams(Str("EUR"), Str("banner"), Obj(<<300, 250>>)) ],
      [ adUnitCode |-> "AU2", rates |-> "default",
        params |-> RequestParams(Undef, Str("video"), Str("*")) ] }


\* ---- inputs of the validator ----

\* ---- inputs of the validator ----

\* the most model groups a catalog handed to the validator has
MaxModelGroups == 3

\* the catalogs handed to the validator
CatalogInputs ==
    LET \* the floors a catalog may declare under each rule key (Undef: no such rule)
        RuleValueChoices ==
            [k \in {<<"banner">>, <<"*">>, <<"banner", "300x250">>, <<"*", "*">>} |->
                IF "*" \in SeqToSet(k) THEN {Undef, Num(2), Str("3")}
                ELSE IF k = <<"banner">> THEN {Undef, Num(10), Num(-1)}
                ELSE {Undef, Num(10)}]
        \* `values`: every choice of declared rules, or no `values` at all
        RuleMaps ==
            {Undef} \cup
            { Obj([k \in {j \in DOMAIN c : c[j] # Undef} |-> c[k]]) :
                c \in {f \in [DOMAIN RuleValueChoices ->
                                 {Undef, Num(2), Num(10), Num(-1), Str("3")}] :
                          \A k \in DOMAIN RuleValueChoices : f[k] \in RuleValueChoices[k]} }
        \* `schema`: absent, or with these field lists
        SchemaChoices ==
            {Undef} \cup
            { Schema(Obj(fields), Str("|")) :
                fields \in {<< >>, <<"mediaType">>, <<"mediaType", "size">>,
                            <<"mediaType", "color">>} }
        \* version 1 catalogs (3 is a version the validator does not know)
        Version1Catalogs ==
            { [EmptyData EXCEPT !.floorsSchemaVersion = version, !.schema = schema,
                                !.values = rules, !.default = default] :
                version \in {Undef, Num(1), Num(3)}, schema \in SchemaChoices,
                rules \in RuleMaps, default \in {Undef, Num(7)} }
        \* a model group: a version 1 catalog with a weight
        ModelGroup(weight, fields, rules, default) ==
            [EmptyData EXCEPT !.modelWeight = weight,
                              !.schema = Schema(Obj(fields), Str("|")),
                              !.values = rules, !.default = default]
        ModelGroupPool ==
            { ModelGroup(Num(1), <<"mediaType">>, Obj(<<"banner">> :> Num(10)), Undef),
              \* its all-wildcard rule is not a number, and it has a scalar default
              ModelGroup(Num(3), <<"mediaType", "size">>,
                         Obj((<<"banner", "300x250">> :> Num(15)) @@
                             (<<"*", "*">> :> Str("3"))),
                         Num(7)),
              \* nothing but a scalar default
              [EmptyData EXCEPT !.modelWeight = Num(2), !.default = Num(7)],
              \* no rule of it is valid
              ModelGroup(Num(1), <<"mediaType">>,
                         Obj(<<"banner", "300x250">> :> Num(15)), Undef),
              \* its weight is not a number
              ModelGroup(Str("1"), <<"mediaType">>, Obj(<<"banner">> :> Num(10)), Undef) }
        \* version 2 catalogs
        Version2Catalogs ==
            { [EmptyData EXCEPT !.floorsSchemaVersion = Num(2), !.modelGroups = groups] :
                groups \in {Undef, Obj(<< >>)} \cup
                           UNION { {Obj(g) : g \in [1..n -> ModelGroupPool]} :
                                      n \in 1..MaxModelGroups } }
    IN  Version1Catalogs \cup Version2Catalogs

\* Math.random() of pickRandomModel, in hundredths
PickDraws == {0, 10, 20, 25, 30, 40, 50, 60, 70, 80, 90, 99}

\* ------------------------------------------------------------------------
\* The state machine
\* ------------------------------------------------------------------------
Event(op, a, arg) == [op |-> op, a |-> a, arg |-> arg]

Commit(S, e) ==
    /\ fetching' = S.fetching
    /\ addedFloorsHook' = S.addedFloorsHook
    /\ floorsConfig' = S.floorsConfig
    /\ delayedAuctions' = S.delayedAuctions
    /\ floorDataForAuction' = S.floorDataForAuction
    /\ allowedFields' = S.allowedFields
    /\ hookConfigs' = S.hookConfigs
    /\ timers' = S.timers
    /\ pendingFetch' = S.pendingFetch
    /\ nextFnLog' = S.nextFnLog
    /\ auctionEndListeners' = S.auctionEndListeners
    /\ evictTimers' = S.evictTimers
    /\ auctionsEnded' = S.auctionsEnded
    /\ ev' = e
    /\ prev' = Snapshot(Cur)

Init ==
    /\ fetching = InitState.fetching
    /\ addedFloorsHook = InitState.addedFloorsHook
    /\ floorsConfig = InitState.floorsConfig
    /\ delayedAuctions = InitState.delayedAuctions
    /\ floorDataForAuction = InitState.floorDataForAuction
    /\ allowedFields = InitState.allowedFields
    /\ hookConfigs = InitState.hookConfigs
    /\ timers = InitState.timers
    /\ pendingFetch = InitState.pendingFetch
    /\ nextFnLog = InitState.nextFnLog
    /\ auctionEndListeners = InitState.auctionEndListeners
    /\ evictTimers = InitState.evictTimers
    /\ auctionsEnded = InitState.auctionsEnded
    /\ floorQueries = 0
    /\ pbjsSkipRate \in PbjsSkipRates
    /\ configUpdates = 0
    /\ ev = Event("init", 0, Undef)
    /\ prev = Snapshot(InitState)

\* pbjs.setConfig({floors: config})
SetFloorsConfig ==
    /\ configUpdates < MaxConfigUpdates
    /\ \E config \in Configs :
          Commit(HandleSetFloorsConfig(Cur, config), Event("setConfig", 0, Obj(config)))
    /\ configUpdates' = configUpdates + 1
    /\ UNCHANGED <<pbjsSkipRate, floorQueries>>

\* pbjs.requestBids() reaches the hook, which is registered while floors are on
RequestBids ==
    /\ addedFloorsHook
    /\ \E a \in Auctions, adUnits \in AdUnitInputs :
          /\ ~hookConfigs[a].started
          /\ \A b \in Auctions : b < a => hookConfigs[b].started
          /\ \E rnds \in DrawsFor({a}, floorsConfig) :
                Commit(RequestBidsHook(Cur, a, adUnits, rnds[a], pbjsSkipRate),
                    Event("requestBids", a, Undef))
    /\ UNCHANGED <<pbjsSkipRate, configUpdates, floorQueries>>

\* the delay timer of the deferred auction a fires
TimerFiresOf(a) ==
    /\ a \in timers
    /\ \E rnds \in DrawsFor({a}, floorsConfig) :
          Commit(AuctionTimeout(Cur, a, rnds[a], pbjsSkipRate), Event("timeout", a, Undef))
    /\ UNCHANGED <<pbjsSkipRate, configUpdates, floorQueries>>

TimerFires == \E a \in Auctions : TimerFiresOf(a)

\* the ajax success callback
FetchSucceeds ==
    /\ pendingFetch > 0
    /\ \E fetchResponse \in FetchResponses :
          \E rnds \in DrawsFor(SeqToSet(delayedAuctions),
                               HandleFetchResponse(Cur, fetchResponse,
                                   [a \in Auctions |-> [model |-> UnusedDraw, skip |-> UnusedDraw]],
                                   pbjsSkipRate).floorsConfig) :
          Commit(HandleFetchResponse(Cur, fetchResponse, rnds, pbjsSkipRate),
                 Event("fetchResponse", 0, fetchResponse))
    /\ UNCHANGED <<pbjsSkipRate, configUpdates, floorQueries>>

\* the ajax error callback
FetchFails ==
    /\ pendingFetch > 0
    /\ \E rnds \in DrawsFor(SeqToSet(delayedAuctions), floorsConfig) :
          Commit(HandleFetchError(Cur, rnds, pbjsSkipRate), Event("fetchError", 0, Undef))
    /\ UNCHANGED <<pbjsSkipRate, configUpdates, floorQueries>>

Next ==
    \/ SetFloorsConfig
    \/ RequestBids
    \/ TimerFires
    \/ FetchSucceeds
    \/ FetchFails

Spec == Init /\ [][Next]_vars

\* a timer armed with setTimeout and not cleared elapses: the step that takes
\* auction a out of the armed timers is the timeout callback TimerFiresOf(a), or
\* the settlement that clears the timer
TimerElapses(a) == a \in timers /\ timers' = timers \ {a}

FairSpec == Spec /\ \A a \in Auctions : WF_timers(TimerElapses(a))

\* ------------------------------------------------------------------------
\* The enforcement pipeline as a state machine: configurations without an
\* endpoint, auctions, their bid responses and getFloor calls, their end
\* ------------------------------------------------------------------------
MaxEnforcementUpdates == 2

MaxFloorQueries == 2

\* pbjs.setConfig({floors: config})
SetEnforcementConfig ==
    /\ configUpdates < MaxEnforcementUpdates
    /\ \E config \in EnforcementConfigs :
          Commit(HandleSetFloorsConfig(Cur, config), Event("setConfig", 0, Obj(config)))
    /\ configUpdates' = configUpdates + 1
    /\ UNCHANGED <<pbjsSkipRate, floorQueries>>

\* a bid response of auction a reaches the addBidResponse hook, which is
\* registered while floors are on
BidResponseArrives ==
    /\ addedFloorsHook
    /\ floorQueries < MaxFloorQueries
    /\ \E a \in Auctions, in \in BidResponseInputs :
          /\ hookConfigs[a].started
          /\ LET Done(bid, request, out) ==
                     Commit(out.state,
                            Event("bidResponse", a,
                                  Obj([ bid        |-> bid,
                                        request    |-> request,
                                        rates      |-> in.rates,
                                        before     |-> floorDataForAuction,
                                        calls      |-> out.calls,
                                        out        |-> out.bid,
                                        logs       |-> out.logs,
                                        floorInfo  |-> out.floorInfo,
                                        enumerated |-> out.enumerated ])))
                 With(bid, request) ==
                     Done(bid, request, AddBidResponseHook(Cur, bid, request, in.rates))
             IN  With([in.bid EXCEPT !.auctionId = Num(a)],
                      BidRequestOf(a, Val(in.bid.adUnitCode), Val(in.bid.bidderCode)))
    /\ floorQueries' = floorQueries + 1
    /\ UNCHANGED <<pbjsSkipRate, configUpdates>>

\* the bid of bidder for the ad unit in auction a carries getFloor
HasGetFloor(a, adUnitCode, bidder) ==
    \E i \in 1..Len(hookConfigs[a].adUnits) :
        /\ hookConfigs[a].adUnits[i].code = adUnitCode
        /\ \E j \in 1..Len(hookConfigs[a].adUnits[i].bids) :
              /\ hookConfigs[a].adUnits[i].bids[j].bidder = bidder
              /\ hookConfigs[a].adUnits[i].bids[j].getFloor

\* a bid adapter calls bidRequest.getFloor(params)
GetFloorCalled ==
    /\ floorQueries < MaxFloorQueries
    /\ \E a \in Auctions, in \in GetFloorInputs :
          /\ HasGetFloor(a, in.adUnitCode, "bidderA")
          /\ LET Done(request, out) ==
                     Commit(out.state,
                            Event("getFloor", a,
                                  Obj([ request    |-> request,
                                        params     |-> in.params,
                                        rates      |-> in.rates,
                                        before     |-> floorDataForAuction,
                                        result     |-> out.result,
                                        threw      |-> out.threw,
                                        floorInfo  |-> out.floorInfo,
                                        enumerated |-> out.enumerated ])))
                 With(request) == Done(request, GetFloor(Cur, request, in.params, in.rates))
             IN  With(BidRequestOf(a, in.adUnitCode, "bidderA"))
    /\ floorQueries' = floorQueries + 1
    /\ UNCHANGED <<pbjsSkipRate, configUpdates>>

\* the auction manager emits AUCTION_END for an auction that was run
AuctionEnds ==
    /\ \E a \in Auctions :
          /\ hookConfigs[a].hasExited
          /\ a \notin auctionsEnded
          /\ Commit(AuctionEndListeners(Cur, a), Event("auctionEnd", a, Undef))
    /\ UNCHANGED <<pbjsSkipRate, configUpdates, floorQueries>>

\* 3000 ms later
EvictTimerFires ==
    /\ \E a \in Auctions :
          /\ evictTimers[a] > 0
          /\ Commit(EvictFloorData(Cur, a), Event("evict", a, Undef))
    /\ UNCHANGED <<pbjsSkipRate, configUpdates, floorQueries>>

EnforcementNext ==
    \/ SetEnforcementConfig
    \/ RequestBids
    \/ BidResponseArrives
    \/ GetFloorCalled
    \/ AuctionEnds
    \/ EvictTimerFires

EnforcementSpec == Init /\ [][EnforcementNext]_vars

\* ------------------------------------------------------------------------
\* The validator and the model picker applied to catalogs: a catalog arrives,
\* is validated, and the validated catalog is validated again or, when it has
\* model groups, sampled
\* ------------------------------------------------------------------------
\* the module as loaded, with the input at hand and the page's pbjs_skipRate
Loaded(input, urlSkipRates) ==
    /\ fetching = InitState.fetching
    /\ addedFloorsHook = InitState.addedFloorsHook
    /\ floorsConfig = InitState.floorsConfig
    /\ delayedAuctions = InitState.delayedAuctions
    /\ floorDataForAuction = InitState.floorDataForAuction
    /\ allowedFields = InitState.allowedFields
    /\ hookConfigs = InitState.hookConfigs
    /\ timers = InitState.timers
    /\ pendingFetch = InitState.pendingFetch
    /\ nextFnLog = InitState.nextFnLog
    /\ auctionEndListeners = InitState.auctionEndListeners
    /\ evictTimers = InitState.evictTimers
    /\ auctionsEnded = InitState.auctionsEnded
    /\ floorQueries = 0
    /\ pbjsSkipRate \in urlSkipRates
    /\ configUpdates = 0
    /\ ev = input
    /\ prev = Snapshot(InitState)

ValidatorInit ==
    \E catalog \in CatalogInputs : Loaded(Event("catalog", 0, Obj(catalog)), PbjsSkipRates)

\* isFloorsDataValid(catalog)
ValidateCatalog ==
    /\ ev.op = "catalog"
    /\ LET Done(r) ==
               ev' = Event("validated", 0,
                           Obj([input |-> ev.arg, ok |-> r.ok, model |-> r.model]))
       IN  Done(IsFloorsDataValid(ev.arg, allowedFields))
    /\ UNCHANGED <<fetching, addedFloorsHook, floorsConfig, delayedAuctions,
                   floorDataForAuction, allowedFields, hookConfigs, timers,
                   pendingFetch, nextFnLog, auctionEndListeners, evictTimers,
                   auctionsEnded, floorQueries, pbjsSkipRate, configUpdates, prev>>

\* isFloorsDataValid(catalog) on a catalog it has validated
RevalidateCatalog ==
    /\ ev.op = "validated"
    /\ Val(ev.arg).ok
    /\ LET Done(r) ==
               ev' = Event("revalidated", 0,
                           Obj([input |-> Val(ev.arg).model, ok |-> r.ok,
                                model |-> r.model]))
       IN  Done(IsFloorsDataValid(Val(ev.arg).model, allowedFields))
    /\ UNCHANGED <<fetching, addedFloorsHook, floorsConfig, delayedAuctions,
                   floorDataForAuction, allowedFields, hookConfigs, timers,
                   pendingFetch, nextFnLog, auctionEndListeners, evictTimers,
                   auctionsEnded, floorQueries, pbjsSkipRate, configUpdates, prev>>

\* pickRandomModel(modelGroups, modelWeightSum) on a validated catalog
PickModel ==
    /\ ev.op = "validated"
    /\ Val(ev.arg).ok
    /\ Val(Val(ev.arg).model).floorsSchemaVersion = Num(2)
    /\ \E random01 \in PickDraws :
          LET Done(groups, weightSum) ==
                  ev' = Event("picked", 0,
                              Obj([ modelGroups |-> groups,
                                    weightSum   |-> weightSum,
                                    random01    |-> random01,
                                    picked      |-> PickRandomModel(groups, weightSum,
                                                                    random01) ]))
          IN  Done(Val(Val(Val(ev.arg).model).modelGroups),
                   Val(Val(Val(ev.arg).model).modelWeightSum))
    /\ UNCHANGED <<fetching, addedFloorsHook, floorsConfig, delayedAuctions,
                   floorDataForAuction, allowedFields, hookConfigs, timers,
                   pendingFetch, nextFnLog, auctionEndListeners, evictTimers,
                   auctionsEnded, floorQueries, pbjsSkipRate, configUpdates, prev>>

ValidatorNext ==
    \/ ValidateCatalog
    \/ RevalidateCatalog
    \/ PickModel

ValidatorSpec == ValidatorInit /\ [][ValidatorNext]_vars

\* ------------------------------------------------------------------------
\* Resolution as a state machine: configurations with and without a catalog,
\* line items with and without floors, a pbjs_skipRate on the page or not; the
\* auctions, the fetch response, bid responses and getFloor calls
\* ------------------------------------------------------------------------
MaxResolutionUpdates == 1

\* the line items of an auction: those of AdUnitInputs, and
ResolutionAdUnits ==
    LET \* floors of a line item that declares no schema of its own
        AdUnitRules ==
            [EmptyData EXCEPT !.values = Obj(<<"Banner">> :> Num(9))]
        \* floors of a line item under a schema other than AdUnitFloors'
        OtherSchemaFloors ==
            [EmptyData EXCEPT
                !.schema = MediaSizeSchema,
                !.values = Obj(<<"banner", "300x250">> :> Num(30))]
        \* floors of a line item that declares a scalar default and nothing else
        DefaultOnlyFloors == [EmptyData EXCEPT !.default = Num(6)]
        \* floors of a line item with a rule and a scalar default
        RuleAndDefaultFloors ==
            [EmptyData EXCEPT
                !.schema  = Schema(Obj(<<"mediaType">>), Undef),
                !.values  = Obj(<<"Banner">> :> Num(7)),
                !.default = Num(3)]
    IN  AdUnitInputs \cup
        { \* the first line item declares a scalar default
          <<AdUnit("AU1", Obj(DefaultOnlyFloors), <<"bidderA">>),
            AdUnit("AU2", Undef, <<"bidderA", "bidderB">>)>>,
          <<AdUnit("AU1", Obj(RuleAndDefaultFloors), <<"bidderA">>),
            AdUnit("AU2", Undef, <<"bidderA", "bidderB">>)>>,
          \* no line item declares floors
          <<AdUnit("AU1", Undef, <<"bidderA">>),
            AdUnit("AU2", Undef, <<"bidderA", "bidderB">>)>>,
          \* the second line item's rules come under the first one's schema
          <<AdUnit("AU1", Obj(AdUnitFloors), <<"bidderA">>),
            AdUnit("AU2", Obj(AdUnitRules), <<"bidderA", "bidderB">>)>>,
          \* the second line item declares another schema
          <<AdUnit("AU1", Obj(AdUnitFloors), <<"bidderA">>),
            AdUnit("AU2", Obj(OtherSchemaFloors), <<"bidderA", "bidderB">>)>> }

ResolutionConfigs ==
    { \* an inline catalog with a scalar default and no all-wildcard rule, under
      \* a skip rate that Math.random() * 100 can come out as
      [RawConfig EXCEPT
          !.skipRate = Num(10),
          !.data = Obj([InlineCatalog EXCEPT
                          !.default = Num(4),
                          !.values  = Obj((<<"banner", "300x250">> :> Num(15)) @@
                                          (<<"banner", "*">> :> Num(10)))])],
      \* no catalog; an endpoint without delay budget
      [RawConfig EXCEPT !.endpoint = Endpoint(Undef)],
      \* an inline catalog under a static skip rate, an endpoint without delay
      \* budget, a bidder that gets no floor signal
      [RawConfig EXCEPT
          !.data = Obj(InlineCatalog), !.skipRate = Num(100),
          !.endpoint = Endpoint(Str("GET")), !.floorProvider = Str("inline"),
          !.enforcement = Obj([Val(Enforcement(Undef, Undef)) EXCEPT
                                  !.noFloorSignalBidders = Obj(<<"bidderB">>)])] }

\* the page's pbjs_skipRate query parameter: absent, or 100
ResolutionSkipRates == {Str(""), Str("100")}

ResolutionInit == Loaded(Event("init", 0, Undef), ResolutionSkipRates)

\* pbjs.setConfig({floors: config})
SetResolutionConfig ==
    /\ configUpdates < MaxResolutionUpdates
    /\ \E config \in ResolutionConfigs :
          Commit(HandleSetFloorsConfig(Cur, config), Event("setConfig", 0, Obj(config)))
    /\ configUpdates' = configUpdates + 1
    /\ UNCHANGED <<pbjsSkipRate, floorQueries>>

\* pbjs.requestBids() reaches the hook; the event keeps the Math.random() draws
RequestBidsFor ==
    /\ addedFloorsHook
    /\ \E a \in Auctions, adUnits \in ResolutionAdUnits :
          /\ ~hookConfigs[a].started
          /\ \A b \in Auctions : b < a => hookConfigs[b].started
          /\ \E rnds \in DrawsFor({a}, floorsConfig) :
                Commit(RequestBidsHook(Cur, a, adUnits, rnds[a], pbjsSkipRate),
                    Event("requestBids", a, Obj([random |-> rnds[a]])))
    /\ UNCHANGED <<pbjsSkipRate, configUpdates, floorQueries>>

ResolutionNext ==
    \/ SetResolutionConfig
    \/ RequestBidsFor
    \/ FetchSucceeds
    \/ BidResponseArrives
    \/ GetFloorCalled

ResolutionSpec == ResolutionInit /\ [][ResolutionNext]_vars

\* ------------------------------------------------------------------------
\* The matcher on its own: a per-auction catalog, as getFloorsDataForAuction
\* leaves a valid catalog, is queried for a few contexts one after the other
\* ------------------------------------------------------------------------
MaxLookups == 3

MatcherInit ==
    LET \* floors by line item
        SlotCatalog ==
            [EmptyData EXCEPT
                !.schema = Schema(Obj(<<"adUnitCode">>), Undef),
                !.values = Obj((<<"Slot">> :> Num(10)) @@ (<<"Slot.Top">> :> Num(20)) @@
                               (<<"*">> :> Num(5)))]
        \* floors by line item, media type and size
        ThreeFieldCatalog ==
            [EmptyData EXCEPT
                !.schema = Schema(Obj(<<"adUnitCode", "mediaType", "size">>), Str("|")),
                !.values = Obj((<<"slot", "banner", "300x250">> :> Num(30)) @@
                               (<<"slot", "*", "*">> :> Num(12)) @@
                               (<<"*", "banner", "*">> :> Num(11)) @@
                               (<<"*", "*", "300x250">> :> Num(9)) @@
                               (<<"*", "video", "*">> :> Num(8)))]
        \* nothing but a scalar default
        DefaultOnlyCatalog == [EmptyData EXCEPT !.default = Num(4)]
        Resolved(r) == GetFloorsDataForAuction(Val(r.model), Undef)
    IN  \E catalog \in {SlotCatalog, InlineCatalog, ThreeFieldCatalog, DefaultOnlyCatalog} :
           /\ IsFloorsDataValid(Obj(catalog), InitState.allowedFields).ok
           /\ Loaded(Event("resolved", 0,
                       Obj([floorData |-> Resolved(IsFloorsDataValid(
                                             Obj(catalog), InitState.allowedFields))])),
                     PbjsSkipRates)

\* getFirstMatchingFloor(floorData, bidObject, responseObject), as getFloor and
\* the bid response hook call it
LookupFloor ==
    /\ floorQueries < MaxLookups
    /\ \E adUnitCode \in {"Slot", "Slot.Top", "Other"},
          mediaType \in {Str("banner"), Str("video"), Undef},
          size \in {Obj(<<300, 250>>), Str("*")} :
          LET Done(floorData, bidObject, responseObject, fieldValues, r) ==
                  ev' = Event("lookup", 0,
                              Obj([ before         |-> floorData,
                                    bidObject      |-> bidObject,
                                    responseObject |-> responseObject,
                                    fieldValues    |-> fieldValues,
                                    candidates     |-> IF Len(fieldValues) = 0 THEN << >>
                                                       ELSE GeneratePossibleEnumerations(
                                                               fieldValues),
                                    floorInfo      |-> r.floorInfo,
                                    enumerated     |-> r.enumerated,
                                    floorData      |-> r.floorData ]))
              With(floorData, bidObject, responseObject) ==
                  Done(floorData, bidObject, responseObject,
                       EnumeratePossibleFieldValues(
                          IF Truthy(SchemaFields(floorData))
                          THEN Val(SchemaFields(floorData)) ELSE << >>,
                          bidObject, responseObject),
                       GetFirstMatchingFloor(floorData, bidObject, responseObject))
          IN  With(Val(ev.arg).floorData,
                   [adUnitCode |-> Str(adUnitCode), floorMin |-> Undef],
                   [mediaType |-> mediaType, size |-> size, adUnitCode |-> Undef])
    /\ floorQueries' = floorQueries + 1
    /\ UNCHANGED <<fetching, addedFloorsHook, floorsConfig, delayedAuctions,
                   floorDataForAuction, allowedFields, hookConfigs, timers,
                   pendingFetch, nextFnLog, auctionEndListeners, evictTimers,
                   auctionsEnded, pbjsSkipRate, configUpdates, prev>>

MatcherNext == LookupFloor

MatcherSpec == MatcherInit /\ [][MatcherNext]_vars

\* ------------------------------------------------------------------------
\* The auction utilities library on its own: a caller has parked some auctions
\* in an array of hookConfigs, each with its timer armed, and calls
\* continueAuction and resumeDelayedAuctions on that array. The array is
\* delayedAuctions, the hookConfigs are hookConfigs, nextFnLog logs the calls of
\* hookConfig.nextFn
\* ------------------------------------------------------------------------
MaxQueued == 3

\* continueAuction(hookConfig, delayedAuctions, callback) of the library, without
\* callback; a is the auction of hookConfig
LibContinueAuction(S, a) ==
    LET \* delayedAuctions.findIndex(auctionConfig => auctionConfig.timer === hookConfig.timer),
        \* counted from 0, -1 when there is none
        FindIndex(queue) ==
            LET at == {k \in 1..Len(queue) :
                          S.hookConfigs[queue[k]].timer = S.hookConfigs[a].timer}
            IN  IF at = {} THEN -1 ELSE (CHOOSE k \in at : \A j \in at : k <= j) - 1
        \* delayedAuctions.splice(start, 1): a negative start counts from the end
        Splice(queue, start) ==
            LET from == IF start < 0 THEN (IF Len(queue) + start < 0 THEN 0
                                           ELSE Len(queue) + start)
                        ELSE IF start > Len(queue) THEN Len(queue) ELSE start
            IN  SubSeq(queue, 1, from) \o SubSeq(queue, from + 2, Len(queue))
    IN  IF S.hookConfigs[a].hasExited
        THEN S
        ELSE [S EXCEPT
                !.delayedAuctions = Splice(@, FindIndex(@)),
                !.nextFnLog = Append(@, a),
                !.hookConfigs = [@ EXCEPT ![a].hasExited = TRUE]]

\* resumeDelayedAuctions(delayedAuctions, continueAuctionFn) of the library with
\* continueAuctionFn = cfg => continueAuction(cfg, delayedAuctions): forEach
\* visits the indices below the length the array had at the call, and skips
\* those that the array no longer has when their turn comes
LibResumeDelayedAuctions(S) ==
    LET RECURSIVE ForEach(_, _)
        ForEach(T, k) ==
            IF k > Len(S.delayedAuctions) THEN T
            ELSE IF k > Len(T.delayedAuctions) THEN ForEach(T, k + 1)
            ELSE ForEach(LibContinueAuction(
                            [T EXCEPT !.timers = @ \ {T.hookConfigs[T.delayedAuctions[k]].timer}],
                            T.delayedAuctions[k]),
                         k + 1)
    IN  [ForEach(S, 1) EXCEPT !.delayedAuctions = << >>]

\* the caller has parked the auctions of a queue; the other auctions have no timer
LibraryInit ==
    \E queue \in UNION {[1..n -> 1..MaxQueued] : n \in 0..MaxQueued} :
       /\ \A i, j \in 1..Len(queue) : queue[i] = queue[j] => i = j
       /\ delayedAuctions = queue
       /\ hookConfigs = [a \in 1..MaxQueued |->
                           [NoHookConfig EXCEPT
                               !.started = TRUE,
                               !.timer = IF \E i \in 1..Len(queue) : queue[i] = a
                                         THEN a ELSE NullTimer]]
       /\ timers = {queue[i] : i \in 1..Len(queue)}
       /\ nextFnLog = << >>
       /\ fetching = InitState.fetching
       /\ addedFloorsHook = InitState.addedFloorsHook
       /\ floorsConfig = InitState.floorsConfig
       /\ floorDataForAuction = InitState.floorDataForAuction
       /\ allowedFields = InitState.allowedFields
       /\ pendingFetch = InitState.pendingFetch
       /\ auctionEndListeners = InitState.auctionEndListeners
       /\ evictTimers = InitState.evictTimers
       /\ auctionsEnded = InitState.auctionsEnded
       /\ floorQueries = 0
       /\ pbjsSkipRate \in PbjsSkipRates
       /\ configUpdates = 0
       /\ ev = Event("init", 0, Undef)
       /\ prev = Snapshot(InitState)

\* the caller continues an auction, parked or not
ContinueOne ==
    /\ \E a \in 1..MaxQueued :
          Commit(LibContinueAuction(Cur, a),
                 Event("continueAuction", a, Obj([hasExited |-> hookConfigs[a].hasExited])))
    /\ UNCHANGED <<pbjsSkipRate, configUpdates, floorQueries>>

\* the caller resumes the parked auctions
ResumeAll ==
    /\ Commit(LibResumeDelayedAuctions(Cur), Event("resumeDelayedAuctions", 0, Undef))
    /\ UNCHANGED <<pbjsSkipRate, configUpdates, floorQueries>>

LibraryNext ==
    \/ ContinueOne
    \/ ResumeAll

LibrarySpec == LibraryInit /\ [][LibraryNext]_vars

\* ------------------------------------------------------------------------
\* timeoutQueue() of the library on its own: a caller submits items, resumes
\* the queue, and the timers of the items fire. The queue is delayedAuctions,
\* an item is named by its timer, hookConfigs tells which items were submitted,
\* and nextFnLog logs the calls of the items' onResume and onTimeout
\* ------------------------------------------------------------------------
MaxItems == 4

TimeoutQueueInit ==
    /\ delayedAuctions = << >>
    /\ hookConfigs = [i \in 1..MaxItems |-> NoHookConfig]
    /\ timers = {}
    /\ nextFnLog = << >>
    /\ fetching = InitState.fetching
    /\ addedFloorsHook = InitState.addedFloorsHook
    /\ floorsConfig = InitState.floorsConfig
    /\ floorDataForAuction = InitState.floorDataForAuction
    /\ allowedFields = InitState.allowedFields
    /\ pendingFetch = InitState.pendingFetch
    /\ auctionEndListeners = InitState.auctionEndListeners
    /\ evictTimers = InitState.evictTimers
    /\ auctionsEnded = InitState.auctionsEnded
    /\ floorQueries = 0
    /\ pbjsSkipRate \in PbjsSkipRates
    /\ configUpdates = 0
    /\ ev = Event("init", 0, Undef)
    /\ prev = Snapshot(InitState)

\* submit(timeout, onResume, onTimeout): the item's timer is armed and the item
\* is pushed
Submit ==
    /\ \E i \in 1..MaxItems :
          /\ ~hookConfigs[i].started
          /\ \A j \in 1..(i - 1) : hookConfigs[j].started
          /\ Commit([Cur EXCEPT
                        !.hookConfigs = [@ EXCEPT ![i].started = TRUE, ![i].timer = i],
                        !.timers = @ \cup {i},
                        !.delayedAuctions = Append(@, i)],
                    Event("submit", i, Undef))
    /\ UNCHANGED <<pbjsSkipRate, configUpdates, floorQueries>>

\* resume() that leaves the timers of the items armed
ResumeKeepingTimers ==
    /\ Commit([Cur EXCEPT
                  !.nextFnLog = @ \o [k \in 1..Len(delayedAuctions) |->
                                         <<"onResume", delayedAuctions[k]>>],
                  !.delayedAuctions = << >>],
              Event("resume", 0, Undef))
    /\ UNCHANGED <<pbjsSkipRate, configUpdates, floorQueries>>

\* resume(): while the queue has items, the first is shifted out, its timer
\* cleared and its onResume called
Resume ==
    /\ Commit([Cur EXCEPT
                  !.nextFnLog = @ \o [k \in 1..Len(delayedAuctions) |->
                                         <<"onResume", delayedAuctions[k]>>],
                  !.timers = @ \ {hookConfigs[delayedAuctions[k]].timer :
                                     k \in 1..Len(delayedAuctions)},
                  !.delayedAuctions = << >>],
              Event("resume", 0, Undef))
    /\ UNCHANGED <<pbjsSkipRate, configUpdates, floorQueries>>

\* the timer of item i fires: queue.splice(queue.indexOf(item), 1), where an
\* index of -1 takes the last item out, then onTimeout()
QueueTimerFiresOf(i) ==
    /\ i \in timers
    /\ LET Spliced(queue) ==
               IF \E k \in 1..Len(queue) : queue[k] = i
               THEN SelectSeq(queue, LAMBDA j : j # i)
               ELSE SubSeq(queue, 1, Len(queue) - 1)
       IN  Commit([Cur EXCEPT
                      !.timers = @ \ {i},
                      !.delayedAuctions = Spliced(@),
                      !.nextFnLog = Append(@, <<"onTimeout", i>>)],
                  Event("timeout", i, Undef))
    /\ UNCHANGED <<pbjsSkipRate, configUpdates, floorQueries>>

TimeoutQueueNext ==
    \/ Submit
    \/ Resume
    \/ \E i \in 1..MaxItems : QueueTimerFiresOf(i)

\* an armed timer fires unless it is cleared
TimeoutQueueSpec ==
    /\ TimeoutQueueInit
    /\ [][TimeoutQueueNext]_vars
    /\ \A i \in 1..MaxItems : WF_vars(QueueTimerFiresOf(i))

\* ------------------------------------------------------------------------
\* Properties
\* ------------------------------------------------------------------------
Occurrences(seq, x) == Cardinality({i \in 1..Len(seq) : seq[i] = x})

IsSettlement(e) == e.op \in {"fetchResponse", "fetchError"}

\* the fetch statuses stamped onto the bids of an auction
FetchStatusOf(a) ==
    UNION {{Val(hookConfigs[a].adUnits[i].bids[j].floorData).fetchStatus :
               j \in {k \in 1..Len(hookConfigs[a].adUnits[i].bids) :
                        IsObject(hookConfigs[a].adUnits[i].bids[k].floorData)}} :
           i \in 1..Len(hookConfigs[a].adUnits)}

\* C1: the continuation (nextFn) of every auction passed to requestBidsHook is
\* invoked at most once, whatever the interleaving of its delay timer, the fetch
\* succeeding and the fetch failing; the trigger that comes second changes
\* nothing for that auction.
C1_NextFnAtMostOnce ==
    /\ \A a \in Auctions : Occurrences(nextFnLog, a) <= 1
    /\ \A a \in Auctions :
          (hookConfigs[a].hasExited /\ a \in SeqToSet(prev.nextFnLog))
             => Occurrences(nextFnLog, a) = Occurrences(prev.nextFnLog, a)

\* C1 witness: an auction was deferred, its timer fired first, and the fetch it
\* was waiting for settles afterwards
C1_Witness ==
    /\ IsSettlement(ev)
    /\ configUpdates = 1
    /\ \E a \in Auctions :
          /\ hookConfigs[a].timer # NullTimer
          /\ FetchStatusOf(a) = {Str("timeout")}
          /\ a \in SeqToSet(prev.nextFnLog)
          /\ Occurrences(nextFnLog, a) = 1

\* C2: every deferred auction is eventually continued, given that its delay
\* timer eventually fires: also when the fetch never settles, and when the
\* configuration is replaced or floors are turned off while it is parked.
C2_DeferredEventuallyContinued ==
    \A a \in Auctions :
        (a \in SeqToSet(delayedAuctions)) ~> (Occurrences(nextFnLog, a) = 1)

\* C2 witness: a parked auction is continued by its timer after floors were
\* turned off, the fetch still being in flight
C2_Witness ==
    /\ ev.op = "timeout"
    /\ ~prev.addedFloorsHook
    /\ prev.fetching /\ fetching
    /\ ev.a \in SeqToSet(prev.delayedAuctions)
    /\ Occurrences(nextFnLog, ev.a) = 1

\* the queue without the auction a
Without(queue, a) == SelectSeq(queue, LAMBDA b : b # a)

\* C3: when the fetch settles, successfully or not, while auctions are parked
\* (their timers armed, none of them continued yet), the continuations of all of
\* them are invoked within that settlement, in the order in which they were
\* parked, and the timer of each of them is cancelled.
C3_SettlementResumesAllInOrder ==
    /\ \A a \in SeqToSet(delayedAuctions) :
          a \in timers /\ ~hookConfigs[a].hasExited /\ Occurrences(nextFnLog, a) = 0
    /\ IsSettlement(ev) =>
          /\ nextFnLog = prev.nextFnLog \o prev.delayedAuctions
          /\ timers \cap SeqToSet(prev.delayedAuctions) = {}
          /\ \A a \in SeqToSet(prev.delayedAuctions) : hookConfigs[a].hasExited

\* C3 witness: a settlement with two auctions parked
C3_Witness ==
    /\ IsSettlement(ev)
    /\ Len(prev.delayedAuctions) >= 2
    /\ SeqToSet(prev.delayedAuctions) \subseteq prev.timers
    /\ nextFnLog = prev.nextFnLog \o prev.delayedAuctions

\* C4: when the timer of a parked auction fires before the fetch settles, that
\* auction alone is continued and taken out of the delayed queue; the other
\* parked auctions stay in the queue, in order, with their timers armed, and the
\* fetch stays in flight.
C4_TimeoutContinuesOnlyItsAuction ==
    (ev.op = "timeout") =>
        /\ ev.a \in SeqToSet(prev.delayedAuctions)
        /\ nextFnLog = Append(prev.nextFnLog, ev.a)
        /\ delayedAuctions = Without(prev.delayedAuctions, ev.a)
        /\ timers = prev.timers \ {ev.a}
        /\ SeqToSet(delayedAuctions) \subseteq timers
        /\ prev.fetching /\ fetching
        /\ pendingFetch = prev.pendingFetch /\ pendingFetch = 1

\* C4 witness: the timer of one of two parked auctions fires while the fetch is
\* in flight
C4_Witness ==
    /\ ev.op = "timeout"
    /\ Len(prev.delayedAuctions) >= 2
    /\ Len(delayedAuctions) = Len(prev.delayedAuctions) - 1
    /\ fetching

\* C5: requestBidsHook defers the auction iff a fetch is in flight and
\* auctionDelay > 0 at that moment: the auction is parked at the end of the
\* queue with its timer armed and its continuation not invoked. In every other
\* case the continuation is invoked within requestBidsHook, and the auction is
\* never in the delayed queue.
C5_DeferredIffFetchingAndDelay ==
    /\ (ev.op = "requestBids") =>
          IF /\ prev.fetching
             /\ IsNumber(prev.floorsConfig.auctionDelay)
             /\ Val(prev.floorsConfig.auctionDelay) > 0
          THEN /\ delayedAuctions = Append(prev.delayedAuctions, ev.a)
               /\ timers = prev.timers \cup {ev.a}
               /\ nextFnLog = prev.nextFnLog
               /\ ~hookConfigs[ev.a].hasExited
          ELSE /\ nextFnLog = Append(prev.nextFnLog, ev.a)
               /\ delayedAuctions = prev.delayedAuctions
               /\ timers = prev.timers
               /\ hookConfigs[ev.a].timer = NullTimer
               /\ hookConfigs[ev.a].hasExited
    /\ \A a \in Auctions :
          (hookConfigs[a].started /\ hookConfigs[a].timer = NullTimer)
             => a \notin SeqToSet(delayedAuctions) /\ a \notin timers

\* C5 witness: an auction starts while a fetch is in flight and another auction
\* is parked, the delay budget being zero by then: it is continued at once
C5_Witness ==
    /\ ev.op = "requestBids"
    /\ prev.fetching
    /\ prev.floorsConfig.auctionDelay = Num(0)
    /\ Len(prev.delayedAuctions) >= 1
    /\ nextFnLog = Append(prev.nextFnLog, ev.a)

\* the configuration update asks for a fetch that generateAndHandleFetch sends
RequestsFetch(config) ==
    /\ config.enabled # Bool(FALSE)
    /\ IsObject(config.endpoint)
    /\ Truthy(Val(config.endpoint).url)
    /\ Val(config.endpoint).method \in {Undef, Str("GET")}

\* C6: a configuration update sends a fetch request iff floors are enabled, an
\* endpoint url is configured, the method is GET or unset, and no fetch is in
\* flight. So at most one fetch is outstanding; an update while fetching sends
\* nothing and queues nothing; a method other than GET sends nothing and does
\* not make the coordinator fetching.
C6_OneFetchOutstanding ==
    /\ pendingFetch \in {0, 1}
    /\ fetching <=> (pendingFetch = 1)
    /\ (ev.op = "setConfig") =>
          /\ pendingFetch = prev.pendingFetch
                 + (IF RequestsFetch(Val(ev.arg)) /\ ~prev.fetching THEN 1 ELSE 0)
          /\ fetching = (prev.fetching \/ RequestsFetch(Val(ev.arg)))
          /\ delayedAuctions = prev.delayedAuctions
          /\ timers = prev.timers
          /\ nextFnLog = prev.nextFnLog

\* C6 witness: an update that asks for a fetch arrives while a fetch is in flight
C6_Witness ==
    /\ ev.op = "setConfig"
    /\ RequestsFetch(Val(ev.arg))
    /\ prev.fetching
    /\ prev.pendingFetch = 1 /\ pendingFetch = 1

\* the catalog, skip rate and provider of the active configuration are those
\* of the configuration c
SameCatalog(c) ==
    /\ floorsConfig.data = c.data
    /\ floorsConfig.skipRate = c.skipRate
    /\ floorsConfig.floorProvider = c.floorProvider

\* C7: when floors are turned off (enabled:false) while a fetch is in flight,
\* the response that arrives afterwards is discarded: the active configuration
\* gets neither its catalog nor its skip rate nor its provider.
C7_LateResponseDiscarded ==
    (ev.op = "fetchResponse" /\ ~prev.addedFloorsHook) => SameCatalog(prev.floorsConfig)

\* the payloads that fail validation
InvalidPayloads == {Obj(NoRuleCatalog), Str("not json")}

\* C8: a fetch that fails in transport, or whose payload fails validation,
\* leaves the catalog (data), the skip rate and the floor provider of the active
\* configuration as they were before the fetch settled.
C8_FailedFetchKeepsCatalog ==
    (ev.op = "fetchError" \/ (ev.op = "fetchResponse" /\ ev.arg \in InvalidPayloads))
        => SameCatalog(prev.floorsConfig)

\* C8 witness: a payload without a valid rule arrives while a catalog is
\* configured
C8_Witness ==
    /\ ev.op = "fetchResponse"
    /\ ev.arg = Obj(NoRuleCatalog)
    /\ IsObject(prev.floorsConfig.data)
    /\ floorsConfig.data = prev.floorsConfig.data
    /\ floorsConfig.fetchStatus = Str("success")

\* C9: after a fetch settlement (valid payload, invalid payload or transport
\* error) the coordinator is not fetching and the delayed queue is empty.
C9_SettlementIdlesAndFlushes ==
    IsSettlement(ev) => (~fetching /\ delayedAuctions = << >> /\ pendingFetch = 0)

\* C9 witness: a transport error while auctions are parked
C9_Witness ==
    /\ ev.op = "fetchError"
    /\ prev.fetching
    /\ Len(prev.delayedAuctions) >= 1
    /\ ~fetching /\ delayedAuctions = << >>

\* the data an auction was resolved with
ResolvedData(a) == DataOf(Val(floorDataForAuction[a]))

AllBidsStamped(a) ==
    \A i \in 1..Len(hookConfigs[a].adUnits) :
        \A j \in 1..Len(hookConfigs[a].adUnits[i].bids) :
            IsObject(hookConfigs[a].adUnits[i].bids[j].floorData)

\* the locations stamped onto the bids of an auction
LocationOf(a) ==
    UNION {{Val(hookConfigs[a].adUnits[i].bids[j].floorData).location :
               j \in {k \in 1..Len(hookConfigs[a].adUnits[i].bids) :
                        IsObject(hookConfigs[a].adUnits[i].bids[k].floorData)}} :
           i \in 1..Len(hookConfigs[a].adUnits)}

\* C10: every auction resumed by a fetch settlement observes that settlement.
\* After a successful fetch with a valid payload its floor data is built from
\* the fetched catalog and its bids are stamped fetchStatus 'success'; after a
\* transport failure it is built from the prior catalog and stamped 'error'; an
\* auction resumed by its own timer is stamped 'timeout'.
C10_ResumedAuctionsObserveSettlement ==
    /\ (ev.op = "fetchResponse" /\ ev.arg = Obj(FetchedCatalog)) =>
          \A a \in SeqToSet(prev.delayedAuctions) :
             /\ ResolvedData(a).location = Str("fetch")
             /\ ResolvedData(a).modelVersion = Str("fetched-model")
             /\ Val(ResolvedData(a).values) = (<<"banner", "*">> :> Num(20))
             /\ AllBidsStamped(a)
             /\ FetchStatusOf(a) = {Str("success")}
             /\ LocationOf(a) = {Str("fetch")}
    /\ (ev.op = "fetchError") =>
          \A a \in SeqToSet(prev.delayedAuctions) :
             /\ AllBidsStamped(a)
             /\ FetchStatusOf(a) = {Str("error")}
             /\ IF IsObject(prev.floorsConfig.data)
                THEN /\ ResolvedData(a).location = Val(prev.floorsConfig.data).location
                     /\ ResolvedData(a).values = Val(prev.floorsConfig.data).values
                ELSE ResolvedData(a).location = Str("adUnit")
    /\ (ev.op = "timeout") =>
          /\ AllBidsStamped(ev.a)
          /\ FetchStatusOf(ev.a) = {Str("timeout")}

\* C10 witness: a valid payload arrives while an auction is parked on top of an
\* inline catalog
C10_Witness ==
    /\ ev.op = "fetchResponse"
    /\ ev.arg = Obj(FetchedCatalog)
    /\ IsObject(prev.floorsConfig.data)
    /\ \E a \in SeqToSet(prev.delayedAuctions) :
          /\ FetchStatusOf(a) = {Str("success")}
          /\ ResolvedData(a).location = Str("fetch")

\* ------------------------------------------------------------------------
\* Properties of the enforcement pipeline
\* ------------------------------------------------------------------------

\* the floor data of the event's auction when the handler started
FloorDataBefore == Val(ev.arg).before[ev.a]

LiveFloorDataBefore ==
    IsObject(FloorDataBefore) /\ ~Truthy(Val(FloorDataBefore).skipped)

\* the bid's price can be told in the currency of the floor: it is in that
\* currency, or it was before the currency module converted it, or the
\* currency module has rates
PriceDeterminable(bid, floorCurrency, rates) ==
    \/ ToUpperCase(Val(OrElse(bid.currency, Str("USD")))) = ToUpperCase(floorCurrency)
    \/ /\ Truthy(bid.originalCurrency)
       /\ ToUpperCase(Val(bid.originalCurrency)) = ToUpperCase(floorCurrency)
    \/ rates # "none"

\* the last step was a bid response for an auction with unskipped floor data,
\* a matched floor and a price that can be told in the floor currency
Enforceable ==
    /\ ev.op = "bidResponse"
    /\ LiveFloorDataBefore
    /\ Truthy(Val(ev.arg).floorInfo.matchingFloor)
    /\ PriceDeterminable(Val(ev.arg).bid,
                         Val(DataOf(Val(FloorDataBefore)).currency), Val(ev.arg).rates)

\* C11: for a bid whose auction has unskipped floor data, a matched floor and a
\* price determinable in the floor currency, the hook rejects the bid iff
\* enforceJS is enabled and the adjusted cpm is below the matched floor and
\* (floorDeals is enabled or the bid carries no deal id); otherwise it accepts it.
C11_RejectIffBelowEnforcedFloor ==
    Enforceable =>
        LET enforcement == Val(Val(FloorDataBefore).enforcement)
            shouldReject ==
                /\ enforcement.enforceJS = Bool(TRUE)
                /\ Val(Val(Val(ev.arg).out.floorData).cpmAfterAdjustments)
                      < Val(Val(ev.arg).floorInfo.matchingFloor)
                /\ (enforcement.floorDeals = Bool(TRUE) \/ Val(ev.arg).bid.dealId = Undef)
        IN  Val(ev.arg).calls = (IF shouldReject THEN <<"reject">> ELSE <<"fn">>)

\* a deal below the floor was rejected because floorDeals is on
C11_Witness ==
    /\ Enforceable
    /\ Val(ev.arg).calls = <<"reject">>
    /\ Val(ev.arg).bid.dealId # Undef

\* C12: each invocation of the enforcement hook calls exactly one of the accept
\* continuation fn and the reject callback, exactly once; a rejected bid is
\* never also forwarded.
C12_ExactlyOneContinuation ==
    ev.op = "bidResponse" =>
        /\ Len(Val(ev.arg).calls) = 1
        /\ Val(ev.arg).calls[1] \in {"fn", "reject"}

\* a bid without a deal was rejected, and only rejected
C12_Witness ==
    /\ ev.op = "bidResponse"
    /\ Val(ev.arg).calls = <<"reject">>
    /\ Val(ev.arg).bid.dealId = Undef

\* C13: the hook passes a bid through unmodified and never rejects it when the
\* bid's auction has no floor data (never resolved, evicted, cleared) or is
\* marked skipped; it leaves the module state as it is.
C13_NoFloorDataPassesThrough ==
    (ev.op = "bidResponse" /\ ~LiveFloorDataBefore) =>
        /\ Val(ev.arg).calls = <<"fn">>
        /\ Val(ev.arg).out = Val(ev.arg).bid
        /\ floorDataForAuction = Val(ev.arg).before

\* a bid response arrived after its auction's floor data was evicted
C13_Witness ==
    /\ ev.op = "bidResponse"
    /\ ev.a \in auctionsEnded
    /\ FloorDataBefore = Undef
    /\ Val(ev.arg).calls = <<"fn">>

\* a bid response of a skipped auction
SkippedBidResponse ==
    /\ ev.op = "bidResponse"
    /\ IsObject(FloorDataBefore)
    /\ Truthy(Val(FloorDataBefore).skipped)

\* C14: a bid whose context matches a rule that resolves to a floor of exactly
\* 0 is still enforced: the floor context is recorded on the bid, with the
\* floor 0 the price was compared with.
C14_ZeroFloorStillEnforced ==
    (/\ ev.op = "bidResponse"
     /\ LiveFloorDataBefore
     /\ Val(ev.arg).floorInfo.matchingRule # Undef
     /\ Val(ev.arg).floorInfo.matchingFloor = Num(0)
     /\ PriceDeterminable(Val(ev.arg).bid,
                          Val(DataOf(Val(FloorDataBefore)).currency), Val(ev.arg).rates)) =>
        /\ IsObject(Val(ev.arg).out.floorData)
        /\ Val(Val(ev.arg).out.floorData).floorValue = Num(0)

\* the last step was a bid response for an auction with unskipped floor data
\* and a matched floor, of a bid whose price the currency module could not
\* convert into the currency of the floor
ConversionFailed ==
    /\ ev.op = "bidResponse"
    /\ LiveFloorDataBefore
    /\ Truthy(Val(ev.arg).floorInfo.matchingFloor)
    /\ ~PriceDeterminable(Val(ev.arg).bid,
                          Val(DataOf(Val(FloorDataBefore)).currency), Val(ev.arg).rates)

\* C15: when currency conversion fails in the enforcement path, the bid is
\* handed to the accept continuation unenforced: it is not rejected, and it is
\* not compared against the floor (no adjusted cpm or floor is put on it).
C15_ConversionFailurePassesThrough ==
    ConversionFailed =>
        /\ Val(ev.arg).calls = <<"fn">>
        /\ Val(ev.arg).out = Val(ev.arg).bid
        /\ Val(ev.arg).logs = <<"logError">>

\* the bid in EUR, priced below the USD floor, without conversion rates
C15_Witness ==
    /\ ConversionFailed
    /\ Val(Val(ev.arg).bid.cpm) < Val(Val(ev.arg).floorInfo.matchingFloor)
    /\ Val(Val(FloorDataBefore).enforcement).enforceJS = Bool(TRUE)

\* the last step was a getFloor call, for an auction with unskipped floor data
\* and a matched floor, that asked for a currency other than the catalog's
\* while the currency module could not convert
GetFloorConversionFailed ==
    /\ ev.op = "getFloor"
    /\ LiveFloorDataBefore
    /\ Truthy(Val(ev.arg).floorInfo.matchingFloor)
    /\ Truthy(Val(ev.arg).params.currency)
    /\ Val(ev.arg).params.currency # DataOf(Val(FloorDataBefore)).currency
    /\ Val(ev.arg).rates = "none"

\* C16: when currency conversion fails in getFloor, getFloor still returns the
\* matched floor, in the catalog's own currency and labelled with it, instead
\* of failing or reporting the requested currency.
C16_GetFloorFallsBackToCatalogCurrency ==
    GetFloorConversionFailed =>
        /\ ~Val(ev.arg).threw
        /\ Val(ev.arg).result.floor = Val(ev.arg).floorInfo.matchingFloor
        /\ Val(ev.arg).result.currency = DataOf(Val(FloorDataBefore)).currency

\* getFloor({currency: 'EUR', ...}) on a USD catalog without rates
C16_Witness ==
    /\ GetFloorConversionFailed
    /\ Val(ev.arg).params.currency = Str("EUR")
    /\ Val(ev.arg).result.currency = Str("USD")

\* the last step looked a floor up in the catalog of its auction
IsMatchQuery ==
    /\ ev.op \in {"bidResponse", "getFloor"}
    /\ LiveFloorDataBefore

\* the catalog the query was matched against
QueriedCatalog == DataOf(Val(FloorDataBefore))

\* the exact field values the query resolved to
QueryExacts ==
    LET Exacts(fieldValues) == [i \in 1..Len(fieldValues) |-> fieldValues[i][1]]
        params == UpdateRequestParamsFromContext(Val(ev.arg).request, Val(ev.arg).params)
    IN  Exacts(EnumeratePossibleFieldValues(
                  Val(SchemaFields(QueriedCatalog)), Val(ev.arg).request,
                  IF ev.op = "bidResponse" THEN Val(ev.arg).bid
                  ELSE [mediaType |-> params.mediaType, size |-> params.size,
                        adUnitCode |-> Undef]))

\* the candidate keys of a query that are rules of the catalog
PresentCandidates(exacts, rules) ==
    {k \in rules : /\ Len(k) = Len(exacts)
                   /\ \A i \in 1..Len(k) : k[i] \in {exacts[i], "*"}}

\* k1 is more specific than k2: fewer wildcards, or as many and exact on the
\* left-most field where the two differ
MoreSpecific(k1, k2) ==
    \/ StarCount(k1) < StarCount(k2)
    \/ /\ StarCount(k1) = StarCount(k2)
       /\ \E i \in 1..Len(k1) :
             /\ k1[i] # k2[i]
             /\ k1[i] # "*"
             /\ \A j \in 1..(i - 1) : k1[j] = k2[j]

\* the floor of the most specific rule among the candidates, if there is one
MostSpecificFloor(exacts, catalog) ==
    LET Best(present) ==
            IF present = {} THEN Undef
            ELSE Val(catalog.values)[
                     CHOOSE k \in present : \A o \in present \ {k} : MoreSpecific(k, o)]
    IN  Best(PresentCandidates(exacts, RuleKeys(catalog)))

\* the candidate keys of three fields come most specific first
ThreeFieldsMostSpecificFirst ==
    LET Ordered(keys) ==
            /\ Len(keys) = 8
            /\ \A i, j \in 1..Len(keys) : i < j => MoreSpecific(keys[i], keys[j])
    IN  Ordered(GeneratePossibleEnumerations(<< <<"a", "*">>, <<"b", "*">>, <<"c", "*">> >>))

\* C17: match returns the floor of the most specific rule present in the
\* catalog: fewest wildcard segments, ties broken by exactness on the left-most
\* differing field. With {banner|300x250: 1.5, banner|*: 1.0, *|*: 0.5}:
\* banner/300x250 gives 1.5, banner/640x480 gives 1.0, video gives 0.5.
C17_MostSpecificRuleWins ==
    IsMatchQuery =>
        /\ \A k \in PresentCandidates(QueryExacts, RuleKeys(QueriedCatalog)) :
              \A o \in PresentCandidates(QueryExacts, RuleKeys(QueriedCatalog)) \ {k} :
                 MoreSpecific(k, o) \/ MoreSpecific(o, k)
        /\ Val(ev.arg).floorInfo.floorRuleValue = MostSpecificFloor(QueryExacts, QueriedCatalog)
        /\ ThreeFieldsMostSpecificFirst
        /\ QueriedCatalog.values = InlineCatalog.values =>
              Val(ev.arg).floorInfo.floorRuleValue =
                 CASE QueryExacts = <<"banner", "300x250">> -> Num(15)
                   [] QueryExacts[1] = "banner" /\ QueryExacts[2] # "300x250" -> Num(10)
                   [] OTHER -> Num(5)

\* banner/300x250 against {banner|*, *|300x250, video|*}: two candidates with
\* one wildcard each, and banner|* won
C17_Witness ==
    /\ IsMatchQuery
    /\ QueryExacts = <<"banner", "300x250">>
    /\ QueriedCatalog.values = TieCatalog.values
    /\ Val(ev.arg).floorInfo.matchingRule = Str(<<"banner", "*">>)
    /\ Val(ev.arg).enumerated

\* the floorMin in force for the query: the override of the querying request
\* when it carries one, else the floorMin of the catalog
EffectiveFloorMin ==
    IF IsNumber(Val(ev.arg).request.floorMin)
    THEN Val(ev.arg).request.floorMin
    ELSE OrElse(QueriedCatalog.floorMin, Num(0))

\* C18: for every match query that matches a rule, including queries served
\* from the memo, the returned floor equals max(effectiveFloorMin, matched rule
\* floor).
C18_FloorIsMaxOfFloorMinAndRule ==
    (IsMatchQuery /\ IsNumber(Val(ev.arg).floorInfo.floorRuleValue)) =>
        Val(ev.arg).floorInfo.matchingFloor =
            MathMax(EffectiveFloorMin, Val(ev.arg).floorInfo.floorRuleValue)

\* the same, for the queries that enumerate
FreshFloorIsMaxOfFloorMinAndRule ==
    (IsMatchQuery /\ Val(ev.arg).enumerated) =>
        Val(ev.arg).floorInfo.matchingFloor =
            MathMax(EffectiveFloorMin, Val(ev.arg).floorInfo.floorRuleValue)

\* floorData.data.matchingInputs of an entry of _floorDataForAuction
MemoOf(floorData) ==
    IF IsObject(floorData) /\ IsObject(DataOf(Val(floorData)).matchingInputs)
    THEN Val(DataOf(Val(floorData)).matchingInputs)
    ELSE EmptyObject

\* where the memo keeps the match of the query
QueryPath == MatchingInputPath(QueryExacts, 1, << >>)

\* C19: two matches against the same per-auction catalog whose resolved exact
\* field values are identical return structurally equal results, the second
\* served from the memo without enumerating: a query returns the saved match
\* of its field values when there is one, what a query returns is what is
\* saved for its field values, and a saved match does not change.
C19_SecondMatchServedFromMemo ==
    IsMatchQuery =>
        /\ QueryPath \in DOMAIN MemoOf(FloorDataBefore) =>
              /\ ~Val(ev.arg).enumerated
              /\ Val(ev.arg).floorInfo = MemoOf(FloorDataBefore)[QueryPath]
        /\ QueryPath \notin DOMAIN MemoOf(FloorDataBefore) => Val(ev.arg).enumerated
        /\ QueryPath \in DOMAIN MemoOf(floorDataForAuction[ev.a])
        /\ MemoOf(floorDataForAuction[ev.a])[QueryPath] = Val(ev.arg).floorInfo
        /\ \A p \in DOMAIN MemoOf(FloorDataBefore) :
              /\ p \in DOMAIN MemoOf(floorDataForAuction[ev.a])
              /\ MemoOf(floorDataForAuction[ev.a])[p] = MemoOf(FloorDataBefore)[p]

\* a getFloor call got the match an earlier query had saved
C19_Witness ==
    /\ IsMatchQuery
    /\ ev.op = "getFloor"
    /\ QueryPath \in DOMAIN MemoOf(FloorDataBefore)
    /\ ~Val(ev.arg).enumerated
    /\ Truthy(Val(ev.arg).floorInfo.matchingFloor)

\* C20: match memoization recorded while serving one auction is never visible
\* to another auction or to the global configuration: a query of auction a
\* leaves the floor data of every other auction and _floorsConfig as they were.
C20_MemoStaysInItsAuction ==
    IsMatchQuery =>
        /\ \A b \in Auctions \ {ev.a} : floorDataForAuction[b] = Val(ev.arg).before[b]
        /\ floorsConfig = prev.floorsConfig

\* a query of one auction saved a match while the other auction holds a
\* catalog resolved from the same configuration, with no match saved
C20_Witness ==
    /\ IsMatchQuery
    /\ Val(ev.arg).enumerated
    /\ \E b \in Auctions \ {ev.a} :
          /\ IsObject(floorDataForAuction[b])
          /\ DataOf(Val(floorDataForAuction[b])).values = QueriedCatalog.values
          /\ DataOf(Val(floorDataForAuction[b])).values = DataOf(floorsConfig).values
          /\ MemoOf(floorDataForAuction[b]) = EmptyObject
    /\ MemoOf(floorDataForAuction[ev.a]) # EmptyObject

\* ------------------------------------------------------------------------
\* Resolved floor data and its lifetime
\* ------------------------------------------------------------------------

\* an auction's floor data without the memo of its catalog
WithoutMemo(floorData) ==
    IF IsObject(floorData) /\ IsObject(Val(floorData).data)
    THEN Obj([Val(floorData) EXCEPT
                 !.data = Obj([Val(@) EXCEPT !.matchingInputs = Undef])])
    ELSE floorData

\* the step is a fetch response, or a configuration update that leaves floors on
IsFetchResponseOrEnablingUpdate(e) ==
    \/ e.op = "fetchResponse"
    \/ e.op = "setConfig" /\ Val(e.arg).enabled # Bool(FALSE)

\* C21: a fetch response or an enabling configuration update leaves the floor
\* data of every auction that was resolved before it as it was: its catalog, its
\* enforcement flags, its floorMin and its skip decision (all but the memo)
C21_ResolvedDataSurvivesUpdates ==
    [][ IsFetchResponseOrEnablingUpdate(ev')
          => \A a \in Auctions :
                IsObject(floorDataForAuction[a])
                   => WithoutMemo(floorDataForAuction'[a])
                         = WithoutMemo(floorDataForAuction[a]) ]_vars

\* a fetch response installed a catalog other than the one an auction resolved
\* before it holds
C21_Witness ==
    /\ ev.op = "fetchResponse"
    /\ floorsConfig.data # prev.floorsConfig.data
    /\ \E a \in SeqToSet(prev.nextFnLog) :
          /\ IsObject(floorDataForAuction[a])
          /\ RuleKeys(ResolvedData(a)) # {}
          /\ Val(ResolvedData(a).values) # Val(DataOf(floorsConfig).values)

\* C22: the auction-ended notification of an auction arms its grace timer and
\* removes nothing; an auction's floor data is removed only when its grace
\* timer fires (or floors are turned off), so bids arriving in between find it;
\* the timer of an auction removes that auction's floor data and no other
C22_EvictedAfterGracePeriodOnly ==
    [][ /\ ev'.op = "auctionEnd"
           => /\ floorDataForAuction' = floorDataForAuction
              /\ evictTimers'[ev'.a] > 0
        /\ ev'.op = "evict"
           => /\ floorDataForAuction'[ev'.a] = Undef
              /\ \A b \in Auctions \ {ev'.a} :
                    floorDataForAuction'[b] = floorDataForAuction[b]
        /\ \A a \in Auctions :
              IsObject(floorDataForAuction[a]) /\ floorDataForAuction'[a] = Undef
                 => \/ ev'.op = "evict" /\ ev'.a = a /\ a \in auctionsEnded
                    \/ ev'.op = "setConfig" /\ Val(ev'.arg).enabled = Bool(FALSE)
      ]_vars

\* the grace timer of an ended auction fired while another auction holds floor
\* data
C22_Witness ==
    /\ ev.op = "evict"
    /\ ev.a \in auctionsEnded
    /\ floorDataForAuction[ev.a] = Undef
    /\ \E b \in Auctions \ {ev.a} : IsObject(floorDataForAuction[b])

\* a bid of an ended auction arrived within the grace period and was rejected
C22_BidInGracePeriod ==
    /\ ev.op = "bidResponse"
    /\ ev.a \in auctionsEnded
    /\ evictTimers[ev.a] > 0
    /\ Val(ev.arg).calls = <<"reject">>

\* ------------------------------------------------------------------------
\* Rule Catalog Validator: properties
\* ------------------------------------------------------------------------

\* the catalog handed to the last validation, and the catalog it left
ValidationInput == Val(Val(ev.arg).input)

ValidationOutput == Val(Val(ev.arg).model)

\* a validation of a version 1 catalog (version 1 is the default)
IsVersion1Validation ==
    /\ ev.op = "validated"
    /\ ValidationInput.floorsSchemaVersion \in {Undef, Num(1)}

\* the field list a catalog declares (none: the empty list)
DeclaredFields(catalog) ==
    IF IsObject(SchemaFields(catalog)) THEN Val(SchemaFields(catalog)) ELSE << >>

\* the rules a catalog declares
DeclaredRules(catalog) ==
    IF IsObject(catalog.values) THEN Val(catalog.values) ELSE EmptyObject

FieldsAllowed(fields) == \A i \in 1..Len(fields) : fields[i] \in allowedFields

\* a rule passes for a list of n fields: its key has n segments and its floor
\* is a number
RulePasses(rules, k, n) == Len(k) = n /\ rules[k][1] = "number"

\* the claim's account of the rules: the rules that pass are kept as they are,
\* the others are dropped, and the catalog is valid iff a rule is left
RulesFilteredFor(fields, rules) ==
    /\ \A k \in DOMAIN rules :
          IF RulePasses(rules, k, Len(fields))
          THEN /\ k \in RuleKeys(ValidationOutput)
               /\ Val(ValidationOutput.values)[k] = rules[k]
          ELSE k \notin RuleKeys(ValidationOutput)
    /\ RuleKeys(ValidationOutput) \subseteq DOMAIN rules
    /\ Val(ev.arg).ok <=> RuleKeys(ValidationOutput) # {}

RulesKept(first, second) ==
    \A k \in RuleKeys(first) :
        k \in RuleKeys(second) /\ Val(second.values)[k] = Val(first.values)[k]

C24_Version1WithDefault ==
    /\ ev.op = "revalidated"
    /\ ValidationInput.floorsSchemaVersion = Num(1)
    /\ IsNumber(ValidationInput.default)
    /\ RuleKeys(ValidationOutput) # {}

\* the sum of the weights of the first n model groups
RECURSIVE RunningWeight(_, _)
RunningWeight(groups, n) ==
    IF n = 0 THEN 0 ELSE RunningWeight(groups, n - 1) + Val(groups[n].modelWeight)

\* C25: with positive integer weights and weightSum their sum, the draw
\* floor(random * weightSum) + 1 lies in 1..weightSum and pickRandomModel
\* selects one group: the first at which the draw minus the running sum of the
\* weights is <= 0. With weights [1, 3] a random source returning 0.1 selects
\* the first group and one returning 0.9 the second
C25_PickSelectsFirstGroupCoveringDraw ==
    ev.op = "picked" =>
       LET groups == Val(ev.arg).modelGroups
           sum    == Val(ev.arg).weightSum
           picked == Val(ev.arg).picked
           draw   == ((Val(ev.arg).random01 * sum) \div 100) + 1
       IN  /\ (\A i \in 1..Len(groups) : Val(groups[i].modelWeight) \in Nat \ {0})
           /\ sum = RunningWeight(groups, Len(groups))
           => /\ draw \in 1..sum
              /\ picked \in 1..Len(groups)
              /\ draw - RunningWeight(groups, picked) <= 0
              /\ \A j \in 1..(picked - 1) : draw - RunningWeight(groups, j) > 0
              /\ [i \in 1..Len(groups) |-> Val(groups[i].modelWeight)] = <<1, 3>>
                 => /\ Val(ev.arg).random01 = 10 => picked = 1
                    /\ Val(ev.arg).random01 = 90 => picked = 2

\* with weights [1, 3] and weightSum 4 the draw 0.9 selected the second group
C25_Witness ==
    /\ ev.op = "picked"
    /\ [i \in 1..Len(Val(ev.arg).modelGroups) |->
           Val(Val(ev.arg).modelGroups[i].modelWeight)] = <<1, 3>>
    /\ Val(ev.arg).weightSum = 4
    /\ Val(ev.arg).random01 = 90
    /\ Val(ev.arg).picked = 2

\* ------------------------------------------------------------------------
\* Auction Floor Resolver: properties
\* ------------------------------------------------------------------------

\* auction a is resolved and its catalog has no rule
Unfloored(a) ==
    IsObject(floorDataForAuction[a]) /\ RuleKeys(ResolvedData(a)) = {}

\* no bid of the line items of auction a carries getFloor
NoBidHasGetFloor(a) ==
    \A i \in 1..Len(hookConfigs[a].adUnits) :
       \A j \in 1..Len(hookConfigs[a].adUnits[i].bids) :
          ~hookConfigs[a].adUnits[i].bids[j].getFloor

\* C26: an auction that starts while the configuration holds no catalog, with
\* line items that declare no floors, is marked skipped; an auction resolved
\* without a rule is skipped and none of its bids carries getFloor; its floor
\* data stays as it is until it is removed; and its bid responses are passed on
C26_NoCatalogMeansSkippedForGood ==
    [][ \A a \in Auctions :
           /\ /\ ev'.op = "requestBids" /\ ev'.a = a
              /\ ~IsObject(floorsConfig.data)
              /\ \A i \in 1..Len(hookConfigs'[a].adUnits) :
                    hookConfigs'[a].adUnits[i].floors = Undef
              => Unfloored(a)'
           /\ Unfloored(a)
              => floorDataForAuction'[a] \in {floorDataForAuction[a], Undef}
           /\ Unfloored(a)'
              => /\ Val(floorDataForAuction'[a]).skipped = Bool(TRUE)
                 /\ NoBidHasGetFloor(a)'
           /\ ev'.op = "bidResponse" /\ ev'.a = a /\ Unfloored(a)
              => Val(ev'.arg).calls = <<"fn">>
      ]_vars

\* a low bid of an auction resolved without catalog arrived after a catalog was
\* fetched, and was passed on
C26_Witness ==
    /\ ev.op = "bidResponse"
    /\ Unfloored(ev.a)
    /\ Val(floorDataForAuction[ev.a]).skipped = Bool(TRUE)
    /\ NoBidHasGetFloor(ev.a)
    /\ RuleKeys(DataOf(floorsConfig)) # {}
    /\ Val(Val(ev.arg).bid.cpm) = 4
    /\ Val(ev.arg).calls = <<"fn">>

\* the auction of the last requestBids was resolved on the spot, with a rule
ResolvedWithRules ==
    /\ ev.op = "requestBids"
    /\ IsObject(floorDataForAuction[ev.a])
    /\ RuleKeys(ResolvedData(ev.a)) # {}

\* the auction of the last requestBids is skipped iff its draw is below rate
SkippedIffDrawBelow(rate) ==
    Val(floorDataForAuction[ev.a]).skipped
       = Bool(IsNumber(rate) /\ Val(ev.arg).random.skip < Val(rate))

\* a fetched catalog's skip rate replaces the configured one
FetchedSkipRateInstalled ==
    /\ ev.op = "fetchResponse"
    /\ ev.arg = Obj(FetchedCatalog)
    => /\ floorsConfig.skipRate = FetchedCatalog.skipRate
       /\ DataOf(floorsConfig).skipRate = FetchedCatalog.skipRate

\* The statement of C27 as it stands: the catalog's skip rate first, then the
\* statically configured one, the page's pbjs_skipRate last
C27_AsStated ==
    /\ FetchedSkipRateInstalled
    /\ ResolvedWithRules
       => SkippedIffDrawBelow(
             IF IsNumber(DataOf(prev.floorsConfig).skipRate)
             THEN DataOf(prev.floorsConfig).skipRate
             ELSE IF IsNumber(prev.floorsConfig.skipRate)
                  THEN prev.floorsConfig.skipRate
                  ELSE ParseFloat(pbjsSkipRate))

\* C27: the skip rate of an auction is the page's pbjs_skipRate when the page
\* has one; otherwise the catalog's skip rate (a fetched catalog's replaces
\* the configured rate), otherwise the statically configured rate
C27_SkipRatePriority ==
    /\ FetchedSkipRateInstalled
    /\ ResolvedWithRules
       => SkippedIffDrawBelow(
             IF pbjsSkipRate # Str("")
             THEN ParseFloat(pbjsSkipRate)
             ELSE IF DataOf(prev.floorsConfig).skipRate # Undef
                  THEN DataOf(prev.floorsConfig).skipRate
                  ELSE prev.floorsConfig.skipRate)

\* after the fetch brought a skip rate of 50 where 100 was configured, an
\* auction with the draw 0.9 was not skipped
C27_Witness ==
    /\ ResolvedWithRules
    /\ pbjsSkipRate = Str("")
    /\ prev.floorsConfig.floorProvider = Str("fetchProvider")
    /\ DataOf(prev.floorsConfig).skipRate = Num(50)
    /\ Val(ev.arg).random.skip = 90
    /\ Val(floorDataForAuction[ev.a]).skipped = Bool(FALSE)

\* the page's pbjs_skipRate of 100 skipped an auction that the fetched rate of
\* 50 and the draw 0.9 would have run
C27_ParamWins ==
    /\ ResolvedWithRules
    /\ pbjsSkipRate = Str("100")
    /\ DataOf(prev.floorsConfig).skipRate = Num(50)
    /\ Val(ev.arg).random.skip = 90
    /\ Val(floorDataForAuction[ev.a]).skipped = Bool(TRUE)

\* the bidders that auction a's floor data keeps floors from: the catalog's
\* list when it has one, else the enforcement's
NoSignalBidders(a) ==
    LET fromData == ResolvedData(a).noFloorSignalBidders
        fromEnforcement ==
            IF IsObject(Val(floorDataForAuction[a]).enforcement)
            THEN Val(Val(floorDataForAuction[a]).enforcement).noFloorSignalBidders
            ELSE << >>
    IN  IF IsObject(fromData) /\ Val(fromData) # << >>
        THEN SeqToSet(Val(fromData))
        ELSE SeqToSet(fromEnforcement)

\* the bid carries the floor metadata of auction a
CarriesFloorMetadata(bid, a) ==
    /\ bid.auctionId = Num(a)
    /\ IsObject(bid.floorData)
    /\ Val(bid.floorData).skipped = Val(floorDataForAuction[a]).skipped
    /\ Val(bid.floorData).modelVersion = ResolvedData(a).modelVersion
    /\ Val(bid.floorData).location
          = IF ResolvedData(a).location = Undef THEN Str("noData")
                                               ELSE ResolvedData(a).location
    /\ Val(bid.floorData).floorProvider = Val(floorDataForAuction[a]).floorProvider
    /\ Val(bid.floorData).noFloorSignaled = (bid.bidder \in NoSignalBidders(a))

\* C28: once an auction is resolved, every bid of every line item carries the
\* floor metadata (skip state, model version, location, provider, and the
\* fetch status of the moment), skipped or not; and a bid has getFloor iff the
\* auction is not skipped and its bidder is not kept from the floor signal
C28_EveryBidStampedGetFloorIffSignalled ==
    \A a \in Auctions :
       IsObject(floorDataForAuction[a]) =>
          \A i \in 1..Len(hookConfigs[a].adUnits) :
             \A j \in 1..Len(hookConfigs[a].adUnits[i].bids) :
                LET bid == hookConfigs[a].adUnits[i].bids[j]
                IN  /\ CarriesFloorMetadata(bid, a)
                    /\ ev.op = "requestBids" /\ ev.a = a
                       => Val(bid.floorData).fetchStatus = floorsConfig.fetchStatus
                    /\ bid.getFloor
                       <=> /\ Val(floorDataForAuction[a]).skipped # Bool(TRUE)
                           /\ bid.bidder \notin NoSignalBidders(a)

\* an auction that is not skipped was resolved: of two bids of a line item one
\* got getFloor, the other, of a bidder without floor signal, did not
C28_Witness ==
    /\ ev.op = "requestBids"
    /\ IsObject(floorDataForAuction[ev.a])
    /\ Val(floorDataForAuction[ev.a]).skipped = Bool(FALSE)
    /\ \E i \in 1..Len(hookConfigs[ev.a].adUnits) :
          \E j, k \in 1..Len(hookConfigs[ev.a].adUnits[i].bids) :
             /\ hookConfigs[ev.a].adUnits[i].bids[j].getFloor
             /\ ~hookConfigs[ev.a].adUnits[i].bids[k].getFloor
             /\ Val(hookConfigs[ev.a].adUnits[i].bids[k].floorData).noFloorSignaled

\* a skipped auction was resolved: its bids carry metadata of a catalog
C28_SkippedStamped ==
    /\ ev.op = "requestBids"
    /\ IsObject(floorDataForAuction[ev.a])
    /\ Val(floorDataForAuction[ev.a]).skipped = Bool(TRUE)
    /\ RuleKeys(ResolvedData(ev.a)) # {}
    /\ AllBidsStamped(ev.a)
    /\ LocationOf(ev.a) = {Str("fetch")}

\* the catalog of auction a was derived from its line items
DerivedFromAdUnits(a) ==
    IsObject(floorDataForAuction[a]) /\ ResolvedData(a).location = Str("adUnit")

\* the floors line item i of auction a declares ({} when none)
FloorsOfAdUnit(a, i) ==
    IF IsObject(hookConfigs[a].adUnits[i].floors)
    THEN Val(hookConfigs[a].adUnits[i].floors) ELSE EmptyData

\* line item i of auction a declares a schema other than the first declared
DeclaresOtherSchema(a, i) ==
    /\ FloorsOfAdUnit(a, i).schema # Undef
    /\ \E h \in 1..Len(hookConfigs[a].adUnits) :
          /\ FloorsOfAdUnit(a, h).schema # Undef
          /\ \A g \in 1..(h - 1) : FloorsOfAdUnit(a, g).schema = Undef
          /\ FloorsOfAdUnit(a, h).schema # FloorsOfAdUnit(a, i).schema

\* the scalar default of line item i of auction a: its own, or the one of the
\* first line item that declares a schema
DefaultOfAdUnit(a, i) ==
    LET declaring == {h \in 1..Len(hookConfigs[a].adUnits) :
                        FloorsOfAdUnit(a, h).schema # Undef}
    IN  IF FloorsOfAdUnit(a, i).default # Undef \/ declaring = {}
        THEN FloorsOfAdUnit(a, i).default
        ELSE FloorsOfAdUnit(a, CHOOSE h \in declaring : \A g \in declaring : h <= g).default

\* the keys of the catalog of auction a under the code of line item i
KeysUnder(a, i) ==
    {k \in RuleKeys(ResolvedData(a)) :
        k[1] = ToLowerCase(hookConfigs[a].adUnits[i].code)}

\* C29: in a catalog derived from line items (whose schema has no adUnitCode
\* field), a line item declaring a schema other than the first declared one
\* has no rule; every rule of the other line items that fits the schema is
\* there under its line item's code, and every rule of the catalog is a rule
\* some line item declares, or its scalar default (its own, else the one of
\* the line item whose schema it takes) as the all-wildcard rule, under that
\* line item's code; and a lookup for a
\* request of a line item finds only rules under that line item's code
C29_RulesKeyedUnderTheirLineItem ==
    /\ \A a \in Auctions :
          DerivedFromAdUnits(a) =>
             /\ \A i \in 1..Len(hookConfigs[a].adUnits) :
                   IF DeclaresOtherSchema(a, i)
                   THEN KeysUnder(a, i) = {}
                   ELSE \A k \in RuleKeys(FloorsOfAdUnit(a, i)) :
                           Len(k) + 1 = Len(Val(SchemaFields(ResolvedData(a))))
                           /\ IsNumber(Val(FloorsOfAdUnit(a, i).values)[k])
                           => /\ <<ToLowerCase(hookConfigs[a].adUnits[i].code)>>
                                    \o LowerKey(k) \in KeysUnder(a, i)
                              /\ Val(ResolvedData(a).values)
                                    [<<ToLowerCase(hookConfigs[a].adUnits[i].code)>>
                                        \o LowerKey(k)]
                                 = Val(FloorsOfAdUnit(a, i).values)[k]
             /\ \A key \in RuleKeys(ResolvedData(a)) :
                   \E i \in 1..Len(hookConfigs[a].adUnits) :
                      /\ key \in KeysUnder(a, i)
                      /\ \/ \E k \in RuleKeys(FloorsOfAdUnit(a, i)) :
                               /\ LowerKey(k) = Tail(key)
                               /\ Val(FloorsOfAdUnit(a, i).values)[k]
                                     = Val(ResolvedData(a).values)[key]
                         \/ /\ \A j \in 2..Len(key) : key[j] = "*"
                            /\ DefaultOfAdUnit(a, i) = Val(ResolvedData(a).values)[key]
    /\ /\ ev.op \in {"bidResponse", "getFloor"}
       /\ IsObject(FloorDataBefore)
       /\ DataOf(Val(FloorDataBefore)).location = Str("adUnit")
       /\ Val(ev.arg).floorInfo.matchingRule # Undef
       => Val(Val(ev.arg).floorInfo.matchingRule)[1]
             = ToLowerCase(Val(Val(ev.arg).request.adUnitCode))

\* an auction's catalog was derived from two line items with rules, and a bid
\* for the second line item matched that line item's rule, not the first's
C29_Witness ==
    /\ ev.op = "bidResponse"
    /\ DerivedFromAdUnits(ev.a)
    /\ Val(ev.arg).request.adUnitCode = Str("AU2")
    /\ KeysUnder(ev.a, 1) # {}
    /\ Val(ev.arg).floorInfo.matchingRule = Str(<<"au2", "banner">>)
    /\ Val(ev.arg).floorInfo.floorRuleValue = Num(9)

\* an auction's catalog was derived from line items of which the second
\* declares another schema: the first one's rules are there, the second's not
C29_ConflictingSchemaDropped ==
    /\ ev.op = "bidResponse"
    /\ DerivedFromAdUnits(ev.a)
    /\ DeclaresOtherSchema(ev.a, 2)
    /\ KeysUnder(ev.a, 1) # {}
    /\ KeysUnder(ev.a, 2) = {}
    /\ Val(ev.arg).request.adUnitCode = Str("AU2")
    /\ Val(ev.arg).floorInfo.matchingRule = Undef

\* ------------------------------------------------------------------------
\* The price compared with the floor
\* ------------------------------------------------------------------------

\* the last bid response was compared with a floor
WasCompared ==
    /\ ev.op = "bidResponse"
    /\ IsObject(Val(ev.arg).out.floorData)

\* the currency of the catalog the last bid response was matched against
ComparedFloorCurrency == ToUpperCase(Val(DataOf(Val(FloorDataBefore)).currency))

\* the currency of a bid: USD when it names none; compared without regard to case
BidCurrencyIs(bid, currency) ==
    IF bid.currency = Undef THEN currency = "USD"
                            ELSE ToUpperCase(Val(bid.currency)) = currency

OriginalCurrencyIs(bid, currency) ==
    /\ bid.originalCurrency # Undef
    /\ ToUpperCase(Val(bid.originalCurrency)) = currency

\* C30: the price compared with the floor is, before the bidder's cpm
\* adjustment: the bid's cpm when the bid's currency is the catalog's; else the
\* bid's original cpm when its original currency is the catalog's; else the
\* converted cpm. Currencies are compared without regard to case, and a bid
\* without currency is a USD bid
C30_ComparedPriceByCurrencyPriority ==
    WasCompared =>
       LET bid == Val(ev.arg).bid
           cur == ComparedFloorCurrency
           base == IF BidCurrencyIs(bid, cur) THEN bid.cpm
                   ELSE IF OriginalCurrencyIs(bid, cur) THEN bid.originalCpm
                   ELSE ConvertCurrency(bid.cpm, ToUpperCase(Val(bid.currency)), cur,
                                        Val(ev.arg).rates).value
       IN  Val(Val(ev.arg).out.floorData).cpmAfterAdjustments
              = GetBiddersCpmAdjustment(base, bid.bidderCode)

\* a bid in another currency whose original currency, in lower case, is the
\* catalog's was compared by its original cpm
C30_Witness ==
    /\ WasCompared
    /\ ~BidCurrencyIs(Val(ev.arg).bid, ComparedFloorCurrency)
    /\ Val(ev.arg).bid.originalCurrency = Str("usd")
    /\ ComparedFloorCurrency = "USD"
    /\ Val(Val(ev.arg).out.floorData).cpmAfterAdjustments = Val(ev.arg).bid.originalCpm
    /\ Val(ev.arg).bid.originalCpm # Val(ev.arg).bid.cpm

\* a bid in another currency and without original currency of the catalog's
\* was compared by its converted cpm
C30_Converted ==
    /\ WasCompared
    /\ Val(ev.arg).bid.currency = Str("eur")
    /\ Val(Val(ev.arg).out.floorData).cpmAfterAdjustments = Num(4)

\* a bid without currency was compared by its cpm
C30_NoCurrency ==
    /\ WasCompared
    /\ Val(ev.arg).bid.currency = Undef
    /\ Val(Val(ev.arg).out.floorData).cpmAfterAdjustments = Val(ev.arg).bid.cpm

\* ------------------------------------------------------------------------
\* The synthesized default key
\* ------------------------------------------------------------------------

\* the rule a query matches: the most specific candidate key that is a rule
MatchedKey ==
    LET Best(present) == CHOOSE k \in present : \A o \in present \ {k} : MoreSpecific(k, o)
    IN  Best(PresentCandidates(QueryExacts, RuleKeys(QueriedCatalog)))

\* key k of the catalog is the key synthesized from the catalog's scalar
\* default: the all-wildcard key, under the line item's code in a catalog
\* derived from line items
IsSynthesizedDefaultKey(catalog, k) ==
    /\ IsNumber(catalog.default)
    /\ IsObject(catalog.meta)
    /\ Val(catalog.values)[k] = catalog.default
    /\ LET rest == IF catalog.location = Str("adUnit") THEN Tail(k) ELSE k
       IN  \A i \in 1..Len(rest) : rest[i] = "*"

\* the match of the last query reports the default's floor without a rule when
\* the matched key is the synthesized default key, and the matched key else
DefaultReportedWithoutRule ==
    IF IsSynthesizedDefaultKey(QueriedCatalog, MatchedKey)
    THEN /\ Val(ev.arg).floorInfo.matchingRule = Undef
         /\ Val(ev.arg).floorInfo.floorRuleValue = QueriedCatalog.default
    ELSE Val(ev.arg).floorInfo.matchingRule = Str(MatchedKey)

MatchedSomeRule ==
    /\ IsMatchQuery
    /\ PresentCandidates(QueryExacts, RuleKeys(QueriedCatalog)) # {}

\* C31: when the matched key is the catalog's synthesized default key the match
\* reports no matched rule and the default's floor; for any other matched key
\* it reports the key. This holds for catalogs from configuration, from a
\* fetch, and derived from line items that declare a scalar default.
C31_DefaultMatchReportsNoRule ==
    MatchedSomeRule => DefaultReportedWithoutRule

\* the same for catalogs that are not derived from line items
C31_ConfiguredDefaultReportsNoRule ==
    (MatchedSomeRule /\ QueriedCatalog.location # Str("adUnit")) => DefaultReportedWithoutRule

\* a query fell back to the synthesized default of a configured catalog
C31_ConfiguredDefaultMatched ==
    /\ MatchedSomeRule
    /\ QueriedCatalog.location # Str("adUnit")
    /\ IsSynthesizedDefaultKey(QueriedCatalog, MatchedKey)
    /\ Val(ev.arg).floorInfo.matchingRule = Undef
    /\ Val(ev.arg).floorInfo.matchingFloor = Num(4)

\* ------------------------------------------------------------------------
\* The memo of the matcher
\* ------------------------------------------------------------------------

\* the last lookup was answered from the memo of the catalog
ServedFromMemo ==
    /\ ev.op = "lookup"
    /\ Len(Val(ev.arg).fieldValues) > 0
    /\ ~Val(ev.arg).enumerated

\* the result of enumerating the candidate keys for the context of the last
\* lookup, in a catalog without memo
FreshMatch ==
    GetFirstMatchingFloor([Val(ev.arg).before EXCEPT !.matchingInputs = Undef],
                          Val(ev.arg).bidObject, Val(ev.arg).responseObject).floorInfo

\* C32: contexts whose tuples of exact field values differ never share a memo
\* entry: a lookup served from the memo returns the result a fresh enumeration
\* for its context would return
C32_MemoServesWhatEnumerationFinds ==
    ServedFromMemo => Val(ev.arg).floorInfo = FreshMatch

\* a lookup for a context that was looked up before is served from the memo
\* with the result of the enumeration
C32_SameContextServedFromMemo ==
    /\ ServedFromMemo
    /\ Val(ev.arg).floorInfo = FreshMatch
    /\ Val(ev.arg).floorInfo.matchingFloor = Num(20)

\* ------------------------------------------------------------------------
\* The candidate keys
\* ------------------------------------------------------------------------

\* the number of wildcard segments of a key
Wildcards(key) == Cardinality({p \in 1..Len(key) : key[p] = "*"})

\* key k1 is generated before key k2 when the left fields vary slowest and each
\* field gives its exact value before the wildcard
GeneratedBefore(k1, k2) ==
    \E p \in 1..Len(k1) :
       /\ k1[p] # "*"
       /\ k2[p] = "*"
       /\ \A q \in 1..(p - 1) : k1[q] = k2[q]

\* the last step generated the candidate keys of a context
GeneratedCandidates ==
    /\ ev.op = "lookup"
    /\ Len(Val(ev.arg).fieldValues) > 0

\* C33: every candidate key has as many segments as the catalog has fields, the
\* first candidate is the all-exact key, the number of wildcard segments never
\* decreases along the list, and candidates with as many wildcards are in the
\* order of their generation, the left fields varying slowest. (Every
\* combination of exact value and wildcard is a candidate, once.)
C33_CandidatesOrderedByWildcards ==
    GeneratedCandidates =>
       LET c == Val(ev.arg).candidates
           fv == Val(ev.arg).fieldValues
           fields == Val(SchemaFields(Val(ev.arg).before))
       IN  /\ Len(fv) = Len(fields)
           /\ \A i \in 1..Len(c) :
                 /\ Len(c[i]) = Len(fields)
                 /\ \A p \in 1..Len(fields) : c[i][p] \in {fv[p][1], "*"}
           /\ c[1] = [p \in 1..Len(fields) |-> fv[p][1]]
           /\ \A i, j \in 1..Len(c) :
                 i < j => /\ Wildcards(c[i]) <= Wildcards(c[j])
                          /\ Wildcards(c[i]) = Wildcards(c[j]) => GeneratedBefore(c[i], c[j])
           /\ {c[i] : i \in 1..Len(c)}
                 = {k \in [1..Len(fields) ->
                              UNION {{fv[p][1], "*"} : p \in 1..Len(fields)}] :
                       \A p \in 1..Len(fields) : k[p] \in {fv[p][1], "*"}}
           /\ \A i, j \in 1..Len(c) : c[i] = c[j] => i = j

\* three fields with exact values: eight candidates, the all-exact key first,
\* then the keys with one wildcard, the right-most field's wildcard first
C33_Witness ==
    /\ GeneratedCandidates
    /\ Len(Val(ev.arg).candidates) = 8
    /\ Val(ev.arg).candidates[1] = <<"slot", "banner", "300x250">>
    /\ Val(ev.arg).candidates[2] = <<"slot", "banner", "*">>
    /\ Val(ev.arg).candidates[3] = <<"slot", "*", "300x250">>
    /\ Val(ev.arg).candidates[4] = <<"*", "banner", "300x250">>
    /\ Val(ev.arg).candidates[8] = <<"*", "*", "*">>

\* a field without exact value: it gives the wildcard alone
C33_WildcardOnlyField ==
    /\ GeneratedCandidates
    /\ Len(Val(ev.arg).fieldValues) = 3
    /\ Len(Val(ev.arg).candidates) = 4

\* ------------------------------------------------------------------------
\* The floor context of a bid
\* ------------------------------------------------------------------------

\* the floor context on the bid the hook of the last step handed on or rejected
BidFloorContext == Val(Val(ev.arg).out.floorData)

\* the bid of the last step carries the floor context of its match
CarriesFloorContext ==
    /\ IsObject(Val(ev.arg).out.floorData)
    /\ BidFloorContext.floorValue = Val(ev.arg).floorInfo.matchingFloor
    /\ IsNumber(BidFloorContext.floorValue)
    /\ BidFloorContext.floorRule = Val(ev.arg).floorInfo.matchingRule
    /\ BidFloorContext.floorRule # Undef =>
          /\ Val(BidFloorContext.floorRule) \in RuleKeys(QueriedCatalog)
          /\ Val(QueriedCatalog.values)[Val(BidFloorContext.floorRule)]
                = BidFloorContext.floorRuleValue
    /\ BidFloorContext.floorRuleValue = Val(ev.arg).floorInfo.floorRuleValue
    /\ BidFloorContext.floorCurrency = QueriedCatalog.currency
    /\ IsNumber(BidFloorContext.cpmAfterAdjustments)
    /\ BidFloorContext.enforcements = Val(FloorDataBefore).enforcement
    /\ BidFloorContext.matchedFields =
          [i \in 1..Len(Val(SchemaFields(QueriedCatalog))) |->
              <<Val(SchemaFields(QueriedCatalog))[i], QueryExacts[i]>>]

C34_RejectedWithContext ==
    /\ Enforceable
    /\ Val(ev.arg).calls = <<"reject">>
    /\ CarriesFloorContext
    /\ BidFloorContext.floorRule # Undef

\* ------------------------------------------------------------------------
\* The skip sample
\* ------------------------------------------------------------------------

\* the skip rate in force for the auction of the last requestBids, read from
\* the floor data the auction was given: the page's pbjs_skipRate, else the
\* catalog's skip rate, else the configured one
EffectiveSkipRate ==
    IF pbjsSkipRate # Str("") THEN ParseFloat(pbjsSkipRate)
    ELSE IF ResolvedData(ev.a).skipRate # Undef THEN ResolvedData(ev.a).skipRate
    ELSE Val(floorDataForAuction[ev.a]).skipRate

AuctionSkipped == Val(floorDataForAuction[ev.a]).skipped = Bool(TRUE)

\* C35: with a usable catalog the auction is skipped iff the draw in [0,100) is
\* strictly below the skip rate in force; a skip rate of 0 never skips and one
\* of 100 always skips
C35_SkippedIffDrawStrictlyBelowRate ==
    ResolvedWithRules =>
       /\ Val(ev.arg).random.skip \in 0..99
       /\ AuctionSkipped <=> (/\ IsNumber(EffectiveSkipRate)
                              /\ Val(ev.arg).random.skip < Val(EffectiveSkipRate))
       /\ EffectiveSkipRate = Num(0) => ~AuctionSkipped
       /\ EffectiveSkipRate = Num(100) => AuctionSkipped

\* a draw that equals the skip rate did not skip the auction
C35_Witness ==
    /\ ResolvedWithRules
    /\ IsNumber(EffectiveSkipRate)
    /\ Val(ev.arg).random.skip = Val(EffectiveSkipRate)
    /\ ~AuctionSkipped

\* under a skip rate of 0 an auction ran, under one of 100 an auction was skipped
C35_RateZeroRan ==
    ResolvedWithRules /\ EffectiveSkipRate = Num(0) /\ ~AuctionSkipped

C35_RateHundredSkipped ==
    ResolvedWithRules /\ EffectiveSkipRate = Num(100) /\ AuctionSkipped
       /\ Val(ev.arg).random.skip = 90

\* a draw below a skip rate between 0 and 100 skipped the auction
C35_DrawBelowSkipped ==
    ResolvedWithRules /\ EffectiveSkipRate = Num(50) /\ AuctionSkipped

\* ------------------------------------------------------------------------
\* The floors of a validated catalog
\* ------------------------------------------------------------------------

\* the floors of a catalog and of its model groups
FloorsOf(catalog) ==
    {Val(catalog.values)[k] : k \in RuleKeys(catalog)} \cup
    (IF IsObject(catalog.modelGroups)
     THEN UNION { {Val(Val(catalog.modelGroups)[g].values)[k] :
                      k \in RuleKeys(Val(catalog.modelGroups)[g])} :
                  g \in 1..Len(Val(catalog.modelGroups)) }
     ELSE {})

\* the validator accepted the catalog of the last step
Accepted ==
    /\ ev.op = "validated"
    /\ Val(ev.arg).ok

\* C36: every floor of a catalog the validator accepts is a non-negative number
C36_AcceptedFloorsNonNegative ==
    Accepted => \A floor \in FloorsOf(ValidationOutput) : IsNumber(floor) /\ Val(floor) >= 0

\* every floor of a catalog the validator accepts is a number
C36_AcceptedFloorsAreNumbers ==
    Accepted => \A floor \in FloorsOf(ValidationOutput) : IsNumber(floor)

\* an accepted catalog with floors, in model groups too
C36_AcceptedWithFloors ==
    /\ Accepted
    /\ IsObject(ValidationOutput.modelGroups)
    /\ Num(15) \in FloorsOf(ValidationOutput)

\* ------------------------------------------------------------------------
\* The auction utilities library
\* ------------------------------------------------------------------------

\* the members of a sequence
Members(seq) == {seq[i] : i \in 1..Len(seq)}

\* C37: resumeDelayedAuctions, with a continueAuctionFn that calls continueAuction
\* on the same array, continues every parked auction, in the order of the
\* queue, each timer cleared, and leaves the queue empty: no parked auction is
\* dropped without its continuation
C37_ResumeContinuesEveryParkedAuction ==
    ev.op = "resumeDelayedAuctions" =>
       /\ delayedAuctions = << >>
       /\ nextFnLog = prev.nextFnLog \o prev.delayedAuctions
       /\ timers = prev.timers \ Members(prev.delayedAuctions)

\* resumeDelayedAuctions leaves the queue empty, and continues the first parked
\* auction, its timer cleared
C37_QueueEmptiedFirstContinued ==
    ev.op = "resumeDelayedAuctions" =>
       /\ delayedAuctions = << >>
       /\ prev.delayedAuctions # << >> =>
             /\ Len(nextFnLog) > Len(prev.nextFnLog)
             /\ nextFnLog[Len(prev.nextFnLog) + 1] = prev.delayedAuctions[1]
             /\ prev.delayedAuctions[1] \notin timers

\* resumeDelayedAuctions ran on a queue of one auction and continued it
C37_SingleAuctionResumed ==
    /\ ev.op = "resumeDelayedAuctions"
    /\ Len(prev.delayedAuctions) = 1
    /\ nextFnLog = prev.nextFnLog \o prev.delayedAuctions

\* C38: continueAuction removes from the queue only the auction it continues:
\* called for an auction that is not in the queue, it leaves the queue as it is
C38_ContinueRemovesOnlyItsAuction ==
    ev.op = "continueAuction" =>
       delayedAuctions = Without(prev.delayedAuctions, ev.a)

\* continueAuction for an auction in the queue removes that auction and no other
C38_QueuedAuctionRemoved ==
    ev.op = "continueAuction" /\ ev.a \in Members(prev.delayedAuctions) =>
       delayedAuctions = Without(prev.delayedAuctions, ev.a)

\* continueAuction ran for an auction in the middle of the queue
C38_MiddleOfQueueContinued ==
    /\ ev.op = "continueAuction"
    /\ Len(prev.delayedAuctions) = 3
    /\ ev.a = prev.delayedAuctions[2]
    /\ delayedAuctions = <<prev.delayedAuctions[1], prev.delayedAuctions[3]>>

\* ------------------------------------------------------------------------
\* The timeout queue
\* ------------------------------------------------------------------------

\* the callbacks of item i that were called
CallsOf(i) == SelectSeq(nextFnLog, LAMBDA c : c[2] = i)

\* no item had more than one callback called; resume() called onResume of the
\* queued items in the order of their submission, cleared their timers and left
\* the queue empty; a timer called onTimeout of its item and took that item out
\* of the queue, and no other
QueueCallsEachItemOnce ==
    /\ \A i \in 1..MaxItems : Len(CallsOf(i)) <= 1
    /\ ev.op = "resume" =>
          /\ nextFnLog = prev.nextFnLog \o
                [k \in 1..Len(prev.delayedAuctions) |-> <<"onResume", prev.delayedAuctions[k]>>]
          /\ \A k \in 1..(Len(prev.delayedAuctions) - 1) :
                prev.delayedAuctions[k] < prev.delayedAuctions[k + 1]
          /\ timers = prev.timers \ Members(prev.delayedAuctions)
          /\ delayedAuctions = << >>
    /\ ev.op = "timeout" =>
          /\ nextFnLog = Append(prev.nextFnLog, <<"onTimeout", ev.a>>)
          /\ delayedAuctions = Without(prev.delayedAuctions, ev.a)
          /\ Len(delayedAuctions) = Len(prev.delayedAuctions) - 1
          /\ timers = prev.timers \ {ev.a}

\* C39: for every item submitted to a timeoutQueue exactly one of onResume and
\* onTimeout is ever called, and once: resume() calls onResume of all queued
\* items in submission order, clears their timers and leaves the queue empty; a
\* timer that fires calls onTimeout of its item only and removes that item only
C39_ExactlyOneCallbackPerItem ==
    /\ []QueueCallsEachItemOnce
    /\ \A i \in 1..MaxItems : hookConfigs[i].started ~> (Len(CallsOf(i)) = 1)

\* two items were resumed in the order of their submission after the timer of
\* an item submitted between them had fired
C39_Witness ==
    /\ nextFnLog = << <<"onTimeout", 2>>, <<"onResume", 1>>, <<"onResume", 3>> >>
    /\ delayedAuctions = << >>
    /\ timers = {}

\* ------------------------------------------------------------------------
\* The queue and the fetch
\* ------------------------------------------------------------------------

\* no floors request is out: the flag is down, or no ajax callback is awaited
NoFetchInFlight == ~fetching \/ pendingFetch = 0

\* C40: between the turns of the event loop the queue of delayed auctions is
\* non-empty only while a fetch is in flight: whenever none is, no auction is
\* in the queue, none that started is short of its exit, and no delay timer is
\* armed
C40_ParkedOnlyWhileFetching ==
    NoFetchInFlight =>
        /\ delayedAuctions = << >>
        /\ timers = {}
        /\ \A a \in Auctions : hookConfigs[a].started => hookConfigs[a].hasExited

\* the fetch settled while auctions were in the queue, and none is left in it
C40_Witness ==
    /\ ev.op \in {"fetchResponse", "fetchError"}
    /\ Len(prev.delayedAuctions) >= 2
    /\ prev.fetching
    /\ NoFetchInFlight
    /\ delayedAuctions = << >>

\* an auction is in the queue while the fetch is in flight
C40_ParkedWhileFetching ==
    /\ fetching
    /\ pendingFetch > 0
    /\ delayedAuctions # << >>

====
